---- MODULE Spec2Model ----
(***************************************************************************)
(* The entry store of imag (libimagstore/src/store.rs): the cache map of   *)
(* StoreEntry slots behind one RwLock, the borrowed FileLockEntry handles  *)
(* and the file backend, driven by several threads.  Every action is one   *)
(* critical section of the code (one acquisition of the map lock) or one   *)
(* backend call made outside of it.                                        *)
(***************************************************************************)
EXTENDS Integers, FiniteSets, Sequences, Bags, TLC

\* ------------------------------------------------------------------ bounds

NumIds == 2
NumThreads == 2
MaxHandles == 3

StoreIds == 1..NumIds

\* The paths at which the store directory may hold, when the store is opened,
\* a file that is not the text of an entry.
MalformedIds == {1}
Threads == 1..NumThreads

\* --------------------------------------------------------------- the entry

\* A header is abstracted to what Entry::verify reads of it: the kind of the
\* top-level key "imag", the kind of "imag.version", and the kind of the
\* other top-level values (such as the "tag" section an extension writes).
Headers ==
  [imag : {"absent", "scalar", "table"},
   version : {"absent", "nonstring", "invalid", "valid"},
   other : {"none", "table", "scalar"}]

default_header == [imag |-> "table", version |-> "valid", other |-> "none"]

TaggedHeader == [imag |-> "table", version |-> "valid", other |-> "table"]

NoImagHeader == [imag |-> "absent", version |-> "absent", other |-> "table"]

\* What the callers of the model write into a borrowed entry: a header and a
\* content.  The last one does not pass Entry::verify.
UserEdits ==
  {<<default_header, "">>, <<TaggedHeader, "text">>, <<NoImagHeader, "text">>}

EntryNew(loc) == [location |-> loc, header |-> default_header, content |-> ""]

NoEntry == [location |-> 0]

has_main_section(h) ==
  IF h.imag = "absent" THEN [ok |-> FALSE, val |-> FALSE]
  ELSE [ok |-> TRUE, val |-> (h.imag = "table")]

has_imag_version_in_main_section(h) ==
  IF h.imag # "table" \/ h.version \in {"absent", "nonstring"}
  THEN [ok |-> FALSE, val |-> FALSE]
  ELSE [ok |-> TRUE, val |-> (h.version = "valid")]

has_only_tables(h) ==
  [ok |-> TRUE, val |-> (h.imag # "scalar" /\ h.other # "scalar")]

VerifySkipsMainSection(h) ==
  LET v == has_imag_version_in_main_section(h)
      t == has_only_tables(h)
  IN  IF h.imag = "table" /\ ~v.ok THEN "Err"
      ELSE IF h.imag = "table" /\ ~v.val THEN "MissingVersionInfo"
      ELSE IF ~t.val THEN "NonTableInBaseTable"
      ELSE "Ok"

\* Entry::verify: "Ok" or the error it returns.
verify(h) ==
  LET m == has_main_section(h)
      v == has_imag_version_in_main_section(h)
      t == has_only_tables(h)
  IN  IF ~m.ok THEN "ConfigKeyMissingError"
      ELSE IF ~m.val THEN "MissingMainSection"
      ELSE IF ~v.ok THEN "ConfigKeyMissingError"
      ELSE IF ~v.val THEN "MissingVersionInfo"
      ELSE IF ~t.ok THEN "HeaderTypeFailure"
      ELSE IF ~t.val THEN "NonTableInBaseTable"
      ELSE "Ok"

\* ------------------------------------------------------------- the backend

\* A path of the backend is the store root joined with a StoreId, so paths
\* are named by the StoreId.  A file holds the text of an entry (its header
\* and content, not its location) or text that does not parse as one.
NoFile == [kind |-> "nofile"]

Malformed == [kind |-> "malformed"]

\* Entry::to_str: the text written for an entry.
to_str(e) == [kind |-> "entry", header |-> e.header, content |-> e.content]

\* Entry::from_str: the entry parsed from a text, located at loc.
from_str(loc, text) ==
  IF text.kind = "entry"
  THEN [ok |-> TRUE,
        entry |-> [location |-> loc, header |-> text.header, content |-> text.content]]
  ELSE [ok |-> FALSE, entry |-> NoEntry]

\* FileAbstraction::exists
BackendExists(b, path) == b[path] # NoFile

\* FileAbstractionInstance::get_file_content of the instance bound to `path`:
\* Ok(None) when there is no file, the parsed entry, or the parse error.
FileGetContent(b, path, loc) ==
  IF b[path] = NoFile THEN [ok |-> TRUE, some |-> FALSE, entry |-> NoEntry]
  ELSE LET p == from_str(loc, b[path])
       IN  [ok |-> p.ok, some |-> p.ok, entry |-> p.entry]

\* FileAbstractionInstance::write_file_content of the instance bound to `path`.
FileWriteContent(b, path, e) == [b EXCEPT ![path] = to_str(e)]

\* ------------------------------------------------------ the text of an entry

\* A text is the sequence of its lines (the text split at "\n"), so a text
\* that ends in "\n" has "" as its last line.  The lines of a header are the
\* TOML lines that decide what Entry::verify reads: "[tag]" stands for any
\* other table, "x = 1" for any other value at the root.
VersionLine(v) ==
  CASE v = "valid" -> <<"version = '0.0.3'">>
    [] v = "invalid" -> <<"version = 'x'">>
    [] v = "nonstring" -> <<"version = 1">>
    [] OTHER -> <<>>

\* toml::ser::to_string_pretty of a header: the values of the root in key
\* order, then the tables in key order, a blank line before each table but
\* the first thing printed, literal strings in single quotes.
to_string_pretty(h) ==
  LET values == (IF h.imag = "scalar" THEN <<"imag = 1">> ELSE <<>>)
                \o (IF h.other = "scalar" THEN <<"x = 1">> ELSE <<>>)
      imag == IF h.imag = "table"
              THEN (IF values = <<>> THEN <<>> ELSE <<"">>) \o <<"[imag]">> \o VersionLine(h.version)
              ELSE <<>>
      tag == IF h.other = "table"
             THEN (IF values \o imag = <<>> THEN <<>> ELSE <<"">>) \o <<"[tag]">>
             ELSE <<>>
  IN  values \o imag \o tag

\* One line of toml::de::from_str: st is the table the line falls in, the
\* header read so far and whether the text is still valid TOML.
TomlLine(st, line) ==
  LET h == st.h
      bad == [st EXCEPT !.ok = FALSE]
      version(v) == IF st.sec = "imag"
                    THEN IF h.version # "absent" THEN bad ELSE [st EXCEPT !.h.version = v]
                    ELSE IF st.sec = "root" THEN [st EXCEPT !.h.other = "scalar"]
                    ELSE st
  IN  IF ~st.ok THEN st
      ELSE CASE line \in {"", "# note"} -> st
             [] line = "[imag]" ->
                  IF h.imag # "absent" THEN bad
                  ELSE [st EXCEPT !.sec = "imag", !.h.imag = "table"]
             [] line = "[tag]" ->
                  IF h.other = "table" THEN bad
                  ELSE [st EXCEPT !.sec = "tag",
                                  !.h.other = IF h.other = "none" THEN "table" ELSE @]
             [] line = "imag = 1" ->
                  IF st.sec # "root" THEN st
                  ELSE IF h.imag # "absent" THEN bad ELSE [st EXCEPT !.h.imag = "scalar"]
             [] line = "x = 1" ->
                  IF st.sec # "root" THEN st
                  ELSE IF h.other # "none" THEN bad ELSE [st EXCEPT !.h.other = "scalar"]
             [] line \in {"version = '0.0.3'", "version = \"0.0.3\""} -> version("valid")
             [] line = "version = 'x'" -> version("invalid")
             [] line = "version = 1" -> version("nonstring")
             [] OTHER -> bad

RECURSIVE TomlLines(_, _)
TomlLines(st, lines) ==
  IF lines = <<>> THEN st ELSE TomlLines(TomlLine(st, Head(lines)), Tail(lines))

\* toml::de::from_str of the lines of a header.
toml_from_str(lines) ==
  LET st == TomlLines([sec |-> "root", ok |-> TRUE,
                       h |-> [imag |-> "absent", version |-> "absent", other |-> "none"]],
                      lines)
  IN  [ok |-> st.ok, val |-> st.h]

\* The line of the second "---" of a buffer, 0 where it has none.
SecondDelimiter(buf) ==
  LET at == {i \in 2..Len(buf) : buf[i] = "---"}
  IN  IF at = {} THEN 0 ELSE CHOOSE i \in at : \A j \in at : i <= j

ParseDropsLastBlankLine(buf) ==
  LET i == SecondDelimiter(buf)
      t == toml_from_str(SubSeq(buf, 2, i - 1))
      c == SubSeq(buf, i + 1, Len(buf))
      d == IF Len(c) > 1 /\ c[Len(c)] = "" THEN SubSeq(c, 1, Len(c) - 1) ELSE c
  IN  IF Len(buf) = 0 \/ buf[1] # "---" \/ i = 0 \/ ~t.ok
      THEN [ok |-> FALSE, err |-> "MalformedEntry"]
      ELSE [ok |-> TRUE, header |-> t.val, content |-> IF d = <<>> THEN <<"">> ELSE d]

\* util::entry_buffer_to_header_content: the header is the TOML between the
\* two "---" lines, the content is all the text after the second one.
entry_buffer_to_header_content(buf) ==
  LET i == SecondDelimiter(buf)
      t == toml_from_str(SubSeq(buf, 2, i - 1))
      c == SubSeq(buf, i + 1, Len(buf))
  IN  IF Len(buf) = 0 \/ buf[1] # "---" \/ i = 0 \/ ~t.ok
      THEN [ok |-> FALSE, err |-> "MalformedEntry"]
      ELSE [ok |-> TRUE, header |-> t.val, content |-> IF c = <<>> THEN <<"">> ELSE c]

\* Entry::from_str on a text given by its lines.
Entry_from_str(loc, buf) ==
  LET r == entry_buffer_to_header_content(buf)
  IN  IF r.ok
      THEN [ok |-> TRUE, entry |-> [location |-> loc, header |-> r.header, content |-> r.content]]
      ELSE [ok |-> FALSE, err |-> r.err]

\* Entry::to_str as lines: "---\n", the pretty-printed header (which ends in
\* "\n" unless it is empty), "---\n", the content.
Entry_to_str(e) == <<"---">> \o to_string_pretty(e.header) \o <<"---">> \o e.content

\* The buffers the model hands to the parser.  A content is the sequence of
\* its lines: <<"Hai", "", "">> is "Hai\n\n".
MaxContentLines == 3

ContentLines == {"Hai", ""}

Contents == UNION {[1..n -> ContentLines] : n \in 1..MaxContentLines}

HeaderTexts ==
  {to_string_pretty(h) : h \in Headers}
  \cup {<<"# note">> \o to_string_pretty(h) : h \in {default_header, TaggedHeader}}
  \cup {<<"[imag]", "version = \"0.0.3\"">>, <<"[imag]", "version = '0.0.3'", "[tag]">>, <<"[[">>}

Buffers ==
  {<<"---">> \o ht \o <<"---">> \o c : ht \in HeaderTexts, c \in Contents}
  \cup {<<"Hai">>, <<"---", "[imag]", "version = '0.0.3'">>, <<"---", "[imag]", "---">>}

\* `probe` in the runs that are about the store alone.
NoProbe == [op |-> "none"]

\* -------------------------------------------------------------- the state

VARIABLES
  entries,    \* Store.entries: StoreId -> StoreEntry, NoSlot where the map has no key
  backend,    \* the files of the backend: path -> text, NoFile where there is none
  handles,    \* the outstanding FileLockEntry values (a bag of entries)
  thr,        \* per thread: the operation it is in and where
  poisoned,   \* the RwLock of the map was poisoned by a panic under it
  last,       \* the operation that returned last and what it returned
  hist,       \* history: which ids create made, and what each id's last release wrote
  probe       \* an Entry or a StoreId outside any store, what it was given and what came back

vars == <<entries, backend, handles, thr, poisoned, last, hist, probe>>

NoSlot == [status |-> "Absent"]

Idle == [pc |-> "idle"]

\* StoreEntry::new: a Present slot whose file instance is bound to the path of id.
StoreEntryNew(id) == [id |-> id, file |-> id, status |-> "Present"]

is_borrowed(se) == se.status = "Borrowed"

GetEntryIgnoresBorrow(b, se) ==
  LET r == FileGetContent(b, se.file, se.id)
  IN  IF ~r.ok THEN [ok |-> FALSE, err |-> "ParseError", entry |-> NoEntry]
      ELSE IF r.some THEN [ok |-> TRUE, err |-> "", entry |-> r.entry]
      ELSE [ok |-> TRUE, err |-> "", entry |-> EntryNew(se.id)]

\* StoreEntry::get_entry: the entry of the slot's file, a default entry when
\* there is no file, an error when the slot is Borrowed or the file does not
\* parse.
get_entry(b, se) ==
  IF ~is_borrowed(se)
  THEN LET r == FileGetContent(b, se.file, se.id)
       IN  IF ~r.ok THEN [ok |-> FALSE, err |-> "ParseError", entry |-> NoEntry]
           ELSE IF r.some THEN [ok |-> TRUE, err |-> "", entry |-> r.entry]
           ELSE [ok |-> TRUE, err |-> "", entry |-> EntryNew(se.id)]
  ELSE [ok |-> FALSE, err |-> "EntryAlreadyBorrowed", entry |-> NoEntry]

Result(op, id, res) == [op |-> op, id |-> id, res |-> res]

\* `last` when the run does not record what operations return.
Unobserved == Result("off", 0, "")

\* The value of `last` after an operation returned.
Record(op, id, res) == IF last = Unobserved THEN last ELSE Result(op, id, res)

\* A thread that makes no calls in this run.
Parked == [pc |-> "parked"]

Outstanding == BagToSet(handles) \cup {thr[t].h : t \in {u \in Threads : thr[u].pc = "save_as_drop"}}

\* How many handles for id are outstanding, those inside a running save_as included.
NumHandles(id) ==
  LET inBag == {h \in BagToSet(handles) : h.location = id}
      Sum[S \in SUBSET inBag] ==
        IF S = {} THEN 0
        ELSE LET h == CHOOSE x \in S : TRUE IN CopiesIn(h, handles) + Sum[S \ {h}]
  IN  Sum[inBag]
      + Cardinality({t \in Threads : thr[t].pc = "save_as_drop" /\ thr[t].h.location = id})

TotalHandles ==
  BagCardinality(handles) + Cardinality({t \in Threads : thr[t].pc = "save_as_drop"})

AddHandle(e) == handles (+) SetToBag({e})

RemoveHandle(e) == handles (-) SetToBag({e})

\* The history of a fresh store; c and r say which half of it the run keeps.
HistNew(c, r) ==
  [created |-> [i \in StoreIds |-> FALSE], released |-> [i \in StoreIds |-> NoEntry],
   trackCreated |-> c, trackReleased |-> r]

\* Store::create returned Ok for id.
Created(id) == IF hist.trackCreated THEN [hist EXCEPT !.created[id] = TRUE] ELSE hist

\* The handle h was dropped and _update returned res: with Ok the file of the
\* id now holds h, otherwise the release wrote nothing.
Released(h, res) ==
  IF hist.trackReleased
  THEN [hist EXCEPT !.released[h.location] = IF res = "Ok" THEN h ELSE NoEntry]
  ELSE hist

\* A save wrote or removed the files of ids behind the back of their releases.
ForgetReleased(ids) ==
  [hist EXCEPT !.released = [i \in StoreIds |-> IF i \in ids THEN NoEntry ELSE @[i]]]

\* The ids were deleted or moved: what create and the releases did is undone.
Forget(ids) ==
  [hist EXCEPT !.created = [i \in StoreIds |-> IF i \in ids THEN FALSE ELSE @[i]],
               !.released = [i \in StoreIds |-> IF i \in ids THEN NoEntry ELSE @[i]]]

\* Store::new_with_backend: an empty map over the files of the store directory.
StoreNew ==
  /\ entries = [i \in StoreIds |-> NoSlot]
  /\ backend \in {[i \in StoreIds |-> IF i \in S THEN Malformed ELSE NoFile] : S \in SUBSET MalformedIds}
  /\ handles = EmptyBag
  /\ poisoned = FALSE

\* Every thread calls the store; what the calls return is not recorded.
Init ==
  /\ StoreNew
  /\ thr = [t \in Threads |-> Idle]
  /\ last = Unobserved
  /\ hist = HistNew(FALSE, FALSE)
  /\ probe = NoProbe

\* One thread calls the store, and `last` records what each call returned.
InitSeq ==
  /\ StoreNew
  /\ thr = [t \in Threads |-> IF t = 1 THEN Idle ELSE Parked]
  /\ last = Result("none", 0, "Ok")
  /\ hist = HistNew(FALSE, FALSE)
  /\ probe = NoProbe

\* One thread calls the store; `last` and the ids create made are recorded.
InitCreated ==
  /\ StoreNew
  /\ thr = [t \in Threads |-> IF t = 1 THEN Idle ELSE Parked]
  /\ last = Result("none", 0, "Ok")
  /\ hist = HistNew(TRUE, FALSE)
  /\ probe = NoProbe

\* One thread calls the store; what each release wrote is recorded, what the
\* calls return is not.
InitReleased ==
  /\ StoreNew
  /\ thr = [t \in Threads |-> IF t = 1 THEN Idle ELSE Parked]
  /\ last = Unobserved
  /\ hist = HistNew(FALSE, TRUE)
  /\ probe = NoProbe

\* An operation of thread t returns: nothing but `last` and the thread changes.
Return(t, op, id, res) ==
  /\ last' = Record(op, id, res)
  /\ thr' = [thr EXCEPT ![t] = Idle]
  /\ UNCHANGED <<entries, backend, handles, poisoned, hist, probe>>

\* ----------------------------------------------------------------- create

CreateSkipsCacheCheck(t, id) ==
  /\ thr[t] = Idle
  /\ IF poisoned THEN Return(t, "create", id, "LockError")
     ELSE /\ thr' = [thr EXCEPT ![t] = [pc |-> "create_backend", id |-> id]]
          /\ UNCHANGED <<entries, backend, handles, poisoned, last, hist, probe>>

\* Store::exists, first half: the cache lookup under the read lock.
CreateCheckCache(t, id) ==
  /\ thr[t] = Idle
  /\ IF poisoned THEN Return(t, "create", id, "LockError")
     ELSE IF entries[id] # NoSlot THEN Return(t, "create", id, "EntryAlreadyExists")
     ELSE /\ thr' = [thr EXCEPT ![t] = [pc |-> "create_backend", id |-> id]]
          /\ UNCHANGED <<entries, backend, handles, poisoned, last, hist, probe>>

\* Store::exists, second half: the backend lookup, under no lock.
CreateCheckBackend(t) ==
  /\ thr[t].pc = "create_backend"
  /\ LET id == thr[t].id
     IN  IF BackendExists(backend, id) THEN Return(t, "create", id, "EntryAlreadyExists")
         ELSE /\ thr' = [thr EXCEPT ![t] = [pc |-> "create_insert", id |-> id]]
              /\ UNCHANGED <<entries, backend, handles, poisoned, last, hist, probe>>

CreateInsertOverwrites(t) ==
  /\ thr[t].pc = "create_insert"
  /\ TotalHandles < MaxHandles
  /\ LET id == thr[t].id
     IN  IF poisoned THEN Return(t, "create", id, "LockError")
         ELSE /\ entries' = [entries EXCEPT ![id] = [StoreEntryNew(id) EXCEPT !.status = "Borrowed"]]
              /\ handles' = AddHandle(EntryNew(id))
              /\ last' = Record("create", id, "Ok")
              /\ hist' = Created(id)
              /\ probe' = probe
              /\ thr' = [thr EXCEPT ![t] = Idle]
              /\ UNCHANGED <<backend, poisoned>>

\* Store::create, the block under the write lock.
CreateInsert(t) ==
  /\ thr[t].pc = "create_insert"
  /\ TotalHandles < MaxHandles
  /\ LET id == thr[t].id
     IN  IF poisoned THEN Return(t, "create", id, "LockError")
         ELSE IF entries[id] # NoSlot THEN Return(t, "create", id, "EntryAlreadyExists")
         ELSE /\ entries' = [entries EXCEPT ![id] = [StoreEntryNew(id) EXCEPT !.status = "Borrowed"]]
              /\ handles' = AddHandle(EntryNew(id))
              /\ last' = Record("create", id, "Ok")
              /\ hist' = Created(id)
              /\ probe' = probe
              /\ thr' = [thr EXCEPT ![t] = Idle]
              /\ UNCHANGED <<backend, poisoned>>

\* --------------------------------------------------------------- retrieve

RetrieveMarksByResult(t, op, id) ==
  IF poisoned THEN Return(t, op, id, "LockError")
  ELSE LET se == IF entries[id] = NoSlot THEN StoreEntryNew(id) ELSE entries[id]
           r == get_entry(backend, se)
       IN  /\ entries' = [entries EXCEPT ![id] =
                            [se EXCEPT !.status = IF r.ok THEN "Borrowed" ELSE "Present"]]
           /\ handles' = IF r.ok THEN AddHandle(r.entry) ELSE handles
           /\ last' = Record(op, id, IF r.ok THEN "Ok" ELSE r.err)
           /\ hist' = hist
           /\ probe' = probe
           /\ thr' = [thr EXCEPT ![t] = Idle]
           /\ UNCHANGED <<backend, poisoned>>

\* Store::retrieve, the closure under the write lock: the slot is inserted if
\* the map has none, read through get_entry, and marked Borrowed whatever
\* get_entry returned.
RetrieveBody(t, op, id) ==
  IF poisoned THEN Return(t, op, id, "LockError")
  ELSE LET se == IF entries[id] = NoSlot THEN StoreEntryNew(id) ELSE entries[id]
           r == get_entry(backend, se)
       IN  /\ entries' = [entries EXCEPT ![id] = [se EXCEPT !.status = "Borrowed"]]
           /\ handles' = IF r.ok THEN AddHandle(r.entry) ELSE handles
           /\ last' = Record(op, id, IF r.ok THEN "Ok" ELSE r.err)
           /\ hist' = hist
           /\ probe' = probe
           /\ thr' = [thr EXCEPT ![t] = Idle]
           /\ UNCHANGED <<backend, poisoned>>

Retrieve(t, id) ==
  /\ thr[t] = Idle
  /\ TotalHandles < MaxHandles
  /\ RetrieveBody(t, "retrieve", id)

\* -------------------------------------------------------------------- get

GetCheckCache(t, id) ==
  /\ thr[t] = Idle
  /\ IF poisoned THEN Return(t, "get", id, "LockError")
     ELSE /\ thr' = [thr EXCEPT ![t] =
                       [pc |-> IF entries[id] # NoSlot THEN "get_retrieve" ELSE "get_backend",
                        id |-> id]]
          /\ UNCHANGED <<entries, backend, handles, poisoned, last, hist, probe>>

GetAlwaysRetrieves(t) ==
  /\ thr[t].pc = "get_backend"
  /\ thr' = [thr EXCEPT ![t] = [pc |-> "get_retrieve", id |-> thr[t].id]]
  /\ UNCHANGED <<entries, backend, handles, poisoned, last, hist, probe>>

\* Store::get after Store::exists found no slot: the backend lookup, under no
\* lock.
GetCheckBackend(t) ==
  /\ thr[t].pc = "get_backend"
  /\ LET id == thr[t].id
     IN  IF ~BackendExists(backend, id) THEN Return(t, "get", id, "None")
         ELSE /\ thr' = [thr EXCEPT ![t] = [pc |-> "get_retrieve", id |-> id]]
              /\ UNCHANGED <<entries, backend, handles, poisoned, last, hist, probe>>

GetWaitsForRelease(t) ==
  /\ thr[t].pc = "get_retrieve"
  /\ TotalHandles < MaxHandles
  /\ ~(entries[thr[t].id] # NoSlot /\ is_borrowed(entries[thr[t].id]))
  /\ RetrieveBody(t, "get", thr[t].id)

\* Store::get, the call of Store::retrieve: fails at once on a Borrowed slot.
GetRetrieve(t) ==
  /\ thr[t].pc = "get_retrieve"
  /\ TotalHandles < MaxHandles
  /\ RetrieveBody(t, "get", thr[t].id)

\* ------------------------------------------------ update and handle release

\* Store::_update for handle h: the new map, backend and lock state, and what
\* it returns.  "Panic" is a failed assertion: the thread unwinds with the
\* write lock held, which poisons the lock.
UpdateNeverFlips(h, modify_presence) ==
  LET se == entries[h.location]
      same == [entries |-> entries, backend |-> backend, poisoned |-> poisoned]
  IN  IF poisoned THEN [same EXCEPT !.poisoned = TRUE] @@ [res |-> "LockError"]
      ELSE IF se = NoSlot THEN same @@ [res |-> "EntryNotFound"]
      ELSE IF ~is_borrowed(se) THEN [same EXCEPT !.poisoned = TRUE] @@ [res |-> "Panic"]
      ELSE IF verify(h.header) # "Ok" THEN same @@ [res |-> verify(h.header)]
      ELSE IF se.id # h.location THEN [same EXCEPT !.poisoned = TRUE] @@ [res |-> "Panic"]
      ELSE [entries |-> entries,
            backend |-> FileWriteContent(backend, se.file, h),
            poisoned |-> FALSE,
            res |-> "Ok"]

UpdateFlipsFirst(h, modify_presence) ==
  LET se == entries[h.location]
      same == [entries |-> entries, backend |-> backend, poisoned |-> poisoned]
      flipped == IF modify_presence
                 THEN [entries EXCEPT ![h.location] = [se EXCEPT !.status = "Present"]]
                 ELSE entries
  IN  IF poisoned THEN [same EXCEPT !.poisoned = TRUE] @@ [res |-> "LockError"]
      ELSE IF se = NoSlot THEN same @@ [res |-> "EntryNotFound"]
      ELSE IF ~is_borrowed(se) THEN [same EXCEPT !.poisoned = TRUE] @@ [res |-> "Panic"]
      ELSE IF verify(h.header) # "Ok"
      THEN [same EXCEPT !.entries = flipped] @@ [res |-> verify(h.header)]
      ELSE IF se.id # h.location THEN [same EXCEPT !.poisoned = TRUE] @@ [res |-> "Panic"]
      ELSE [entries |-> flipped,
            backend |-> FileWriteContent(backend, se.file, h),
            poisoned |-> FALSE,
            res |-> "Ok"]

UpdateSkipsVerify(h, modify_presence) ==
  LET se == entries[h.location]
      same == [entries |-> entries, backend |-> backend, poisoned |-> poisoned]
  IN  IF poisoned THEN [same EXCEPT !.poisoned = TRUE] @@ [res |-> "LockError"]
      ELSE IF se = NoSlot THEN same @@ [res |-> "EntryNotFound"]
      ELSE IF ~is_borrowed(se) THEN [same EXCEPT !.poisoned = TRUE] @@ [res |-> "Panic"]
      ELSE IF se.id # h.location THEN [same EXCEPT !.poisoned = TRUE] @@ [res |-> "Panic"]
      ELSE [entries |-> IF modify_presence
                        THEN [entries EXCEPT ![h.location] = [se EXCEPT !.status = "Present"]]
                        ELSE entries,
            backend |-> FileWriteContent(backend, se.file, h),
            poisoned |-> FALSE,
            res |-> "Ok"]

_update(h, modify_presence) ==
  LET se == entries[h.location]
      same == [entries |-> entries, backend |-> backend, poisoned |-> poisoned]
  IN  IF poisoned THEN [same EXCEPT !.poisoned = TRUE] @@ [res |-> "LockError"]
      ELSE IF se = NoSlot THEN same @@ [res |-> "EntryNotFound"]
      ELSE IF ~is_borrowed(se) THEN [same EXCEPT !.poisoned = TRUE] @@ [res |-> "Panic"]
      ELSE IF verify(h.header) # "Ok" THEN same @@ [res |-> verify(h.header)]
      ELSE IF se.id # h.location THEN [same EXCEPT !.poisoned = TRUE] @@ [res |-> "Panic"]
      ELSE [entries |-> IF modify_presence
                        THEN [entries EXCEPT ![h.location] = [se EXCEPT !.status = "Present"]]
                        ELSE entries,
            backend |-> FileWriteContent(backend, se.file, h),
            poisoned |-> FALSE,
            res |-> "Ok"]

\* Store::update: the handle stays with the caller, unless the call panics
\* (the unwinding drops it).
Update(t, h) ==
  /\ thr[t] = Idle
  /\ BagIn(h, handles)
  /\ LET u == _update(h, FALSE)
     IN  /\ entries' = u.entries
         /\ backend' = u.backend
         /\ poisoned' = u.poisoned
         /\ handles' = IF u.res = "Panic" THEN RemoveHandle(h) ELSE handles
         /\ last' = Record("update", h.location, u.res)
         /\ hist' = hist
         /\ probe' = probe
         /\ thr' = thr

\* impl Drop for FileLockEntry: the handle is gone whatever _update returned,
\* and the caller sees no error.
Drop(t, h) ==
  /\ thr[t] = Idle
  /\ BagIn(h, handles)
  /\ LET u == _update(h, TRUE)
     IN  /\ entries' = u.entries
         /\ backend' = u.backend
         /\ poisoned' = u.poisoned
         /\ handles' = RemoveHandle(h)
         /\ last' = Record("drop", h.location, IF u.res = "Panic" THEN "Panic" ELSE "Ok")
         /\ hist' = Released(h, u.res)
         /\ probe' = probe
         /\ thr' = thr

\* Entry::get_header_mut / get_content_mut through the handle's DerefMut: the
\* holder rewrites the header and the content of its copy.
Modify(h, hdr, cnt) ==
  /\ BagIn(h, handles)
  /\ <<hdr, cnt>> # <<h.header, h.content>>
  /\ handles' = RemoveHandle(h) (+) SetToBag({[h EXCEPT !.header = hdr, !.content = cnt]})
  /\ UNCHANGED <<entries, backend, thr, poisoned, last, hist, probe>>

\* ------------------------------------------------------------ flush_cache

FlushAll(t) ==
  /\ thr[t] = Idle
  /\ IF poisoned THEN Return(t, "flush_cache", 0, "LockError")
     ELSE /\ entries' = [i \in StoreIds |-> NoSlot]
          /\ last' = Record("flush_cache", 0, "Ok")
          /\ hist' = hist
          /\ probe' = probe
          /\ UNCHANGED <<backend, handles, thr, poisoned>>

\* Store::flush_cache
flush_cache(t) ==
  /\ thr[t] = Idle
  /\ IF poisoned THEN Return(t, "flush_cache", 0, "LockError")
     ELSE /\ entries' = [i \in StoreIds |->
                           IF entries[i] # NoSlot /\ ~is_borrowed(entries[i])
                           THEN NoSlot ELSE entries[i]]
          /\ last' = Record("flush_cache", 0, "Ok")
          /\ hist' = hist
          /\ probe' = probe
          /\ UNCHANGED <<backend, handles, thr, poisoned>>

\* ----------------------------------------------------------------- delete

DeleteIgnoresBorrow(t, id) ==
  /\ thr[t] = Idle
  /\ IF poisoned THEN Return(t, "delete", id, "LockError")
     ELSE IF entries[id] = NoSlot /\ ~BackendExists(backend, id)
     THEN Return(t, "delete", id, "FileNotFound")
     ELSE /\ entries' = [entries EXCEPT ![id] = NoSlot]
          /\ thr' = [thr EXCEPT ![t] = [pc |-> "delete_remove", id |-> id]]
          /\ UNCHANGED <<backend, handles, poisoned, last>>
          /\ hist' = Forget({id})
          /\ probe' = probe

\* Store::delete, the block under the write lock: a Borrowed slot refuses, a
\* Present slot leaves the map, and an id the map does not have must at least
\* be a file.
delete(t, id) ==
  /\ thr[t] = Idle
  /\ IF poisoned THEN Return(t, "delete", id, "LockError")
     ELSE IF entries[id] # NoSlot /\ is_borrowed(entries[id])
     THEN Return(t, "delete", id, "LockError")
     ELSE IF entries[id] = NoSlot /\ ~BackendExists(backend, id)
     THEN Return(t, "delete", id, "FileNotFound")
     ELSE /\ entries' = [entries EXCEPT ![id] = NoSlot]
          /\ thr' = [thr EXCEPT ![t] = [pc |-> "delete_remove", id |-> id]]
          /\ UNCHANGED <<backend, handles, poisoned, last>>
          /\ hist' = Forget({id})
          /\ probe' = probe

\* Store::delete, the backend's remove_file after the lock was released.
DeleteRemoveFile(t) ==
  /\ thr[t].pc = "delete_remove"
  /\ LET id == thr[t].id
     IN  IF ~BackendExists(backend, id) THEN Return(t, "delete", id, "FileError")
         ELSE /\ backend' = [backend EXCEPT ![id] = NoFile]
              /\ last' = Record("delete", id, "Ok")
              /\ hist' = Forget({id})
              /\ probe' = probe
              /\ thr' = [thr EXCEPT ![t] = Idle]
              /\ UNCHANGED <<entries, handles, poisoned>>

\* ------------------------------------------------------------- move_by_id

RekeyKeepsId(old, new) ==
  IF entries[old] = NoSlot THEN entries
  ELSE [[entries EXCEPT ![old] = NoSlot] EXCEPT ![new] = entries[old]]

\* The re-keying at the end of move_by_id: the slot of old, if the map has
\* one, gets id new and is inserted under new; its file instance is the one
\* StoreEntry::new bound when the slot was made.
Rekey(old, new) ==
  IF entries[old] = NoSlot THEN entries
  ELSE [[entries EXCEPT ![old] = NoSlot] EXCEPT ![new] = [entries[old] EXCEPT !.id = new]]

MoveIgnoresBorrow(t, old, new) ==
  /\ thr[t] = Idle
  /\ IF poisoned THEN Return(t, "move_by_id", old, "LockError")
     ELSE IF entries[new] # NoSlot THEN Return(t, "move_by_id", old, "EntryAlreadyExists")
     ELSE IF BackendExists(backend, new) THEN Return(t, "move_by_id", old, "EntryAlreadyExists")
     ELSE IF ~BackendExists(backend, old) THEN Return(t, "move_by_id", old, "RenameError")
     ELSE /\ backend' = [[backend EXCEPT ![new] = backend[old]] EXCEPT ![old] = NoFile]
          /\ entries' = Rekey(old, new)
          /\ last' = Record("move_by_id", old, "Ok")
          /\ hist' = Forget({old, new})
          /\ probe' = probe
          /\ UNCHANGED <<handles, thr, poisoned>>

MoveRefusesUnderAnyBorrow(t, old, new) ==
  /\ thr[t] = Idle
  /\ IF poisoned THEN Return(t, "move_by_id", old, "LockError")
     ELSE IF entries[new] # NoSlot THEN Return(t, "move_by_id", old, "EntryAlreadyExists")
     ELSE IF \E i \in DOMAIN entries : entries[i] # NoSlot /\ is_borrowed(entries[i])
     THEN Return(t, "move_by_id", old, "EntryAlreadyBorrowed")
     ELSE IF BackendExists(backend, new) THEN Return(t, "move_by_id", old, "EntryAlreadyExists")
     ELSE IF ~BackendExists(backend, old) THEN Return(t, "move_by_id", old, "RenameError")
     ELSE /\ backend' = [[backend EXCEPT ![new] = backend[old]] EXCEPT ![old] = NoFile]
          /\ entries' = Rekey(old, new)
          /\ last' = Record("move_by_id", old, "Ok")
          /\ hist' = Forget({old, new})
          /\ probe' = probe
          /\ UNCHANGED <<handles, thr, poisoned>>

MoveSkipsMapCheck(t, old, new) ==
  /\ thr[t] = Idle
  /\ IF poisoned THEN Return(t, "move_by_id", old, "LockError")
     ELSE IF entries[old] # NoSlot /\ is_borrowed(entries[old])
     THEN Return(t, "move_by_id", old, "EntryAlreadyBorrowed")
     ELSE IF BackendExists(backend, new) THEN Return(t, "move_by_id", old, "EntryAlreadyExists")
     ELSE IF ~BackendExists(backend, old) THEN Return(t, "move_by_id", old, "RenameError")
     ELSE /\ backend' = [[backend EXCEPT ![new] = backend[old]] EXCEPT ![old] = NoFile]
          /\ entries' = Rekey(old, new)
          /\ last' = Record("move_by_id", old, "Ok")
          /\ hist' = Forget({old, new})
          /\ probe' = probe
          /\ UNCHANGED <<handles, thr, poisoned>>

\* Store::move_by_id, all of it under the write lock.
move_by_id(t, old, new) ==
  /\ thr[t] = Idle
  /\ IF poisoned THEN Return(t, "move_by_id", old, "LockError")
     ELSE IF entries[new] # NoSlot THEN Return(t, "move_by_id", old, "EntryAlreadyExists")
     ELSE IF entries[old] # NoSlot /\ is_borrowed(entries[old])
     THEN Return(t, "move_by_id", old, "EntryAlreadyBorrowed")
     ELSE IF BackendExists(backend, new) THEN Return(t, "move_by_id", old, "EntryAlreadyExists")
     ELSE IF ~BackendExists(backend, old) THEN Return(t, "move_by_id", old, "RenameError")
     ELSE /\ backend' = [[backend EXCEPT ![new] = backend[old]] EXCEPT ![old] = NoFile]
          /\ entries' = Rekey(old, new)
          /\ last' = Record("move_by_id", old, "Ok")
          /\ hist' = Forget({old, new})
          /\ probe' = probe
          /\ UNCHANGED <<handles, thr, poisoned>>

\* ------------------------------------------------------- save_to, save_as

\* Store::save_to_other_location under the write lock: what it returns and the
\* backend it leaves.  Only the map is asked whether new_id exists; the copy
\* reads the file at the path of the handle's id.
save_to_other_location(h, new_id, remove_old) ==
  LET old_id == h.location
  IN  IF poisoned THEN [res |-> "LockError", backend |-> backend]
      ELSE IF entries[new_id] # NoSlot THEN [res |-> "EntryAlreadyExists", backend |-> backend]
      ELSE IF ~BackendExists(backend, old_id) THEN [res |-> "FileError", backend |-> backend]
      ELSE LET copied == [backend EXCEPT ![new_id] = backend[old_id]]
           IN  [res |-> "Ok",
                backend |-> IF remove_old THEN [copied EXCEPT ![old_id] = NoFile] ELSE copied]

\* Store::save_to
save_to(t, h, new_id) ==
  /\ thr[t] = Idle
  /\ BagIn(h, handles)
  /\ LET r == save_to_other_location(h, new_id, FALSE)
     IN  /\ backend' = r.backend
         /\ last' = Record("save_to", new_id, r.res)
         /\ hist' = IF r.res = "Ok" THEN ForgetReleased({new_id}) ELSE hist
         /\ probe' = probe
         /\ UNCHANGED <<entries, handles, thr, poisoned>>

\* Store::save_as, up to the return of save_to_other_location: the handle was
\* moved into the call and is dropped when the call returns.
save_as(t, h, new_id) ==
  /\ thr[t] = Idle
  /\ BagIn(h, handles)
  /\ LET r == save_to_other_location(h, new_id, TRUE)
     IN  /\ backend' = r.backend
         /\ handles' = RemoveHandle(h)
         /\ thr' = [thr EXCEPT ![t] = [pc |-> "save_as_drop", id |-> new_id, h |-> h,
                                     res |-> IF last = Unobserved THEN "" ELSE r.res]]
         /\ UNCHANGED <<entries, poisoned, last>>
         /\ hist' = IF r.res = "Ok" THEN ForgetReleased({new_id, h.location}) ELSE hist
         /\ probe' = probe

\* Store::save_as, the end of the call: the handle it consumed is dropped.
SaveAsDrop(t) ==
  /\ thr[t].pc = "save_as_drop"
  /\ LET u == _update(thr[t].h, TRUE)
     IN  /\ entries' = u.entries
         /\ backend' = u.backend
         /\ poisoned' = u.poisoned
         /\ last' = Record("save_as", thr[t].id, IF u.res = "Panic" THEN "Panic" ELSE thr[t].res)
         /\ hist' = Released(thr[t].h, u.res)
         /\ probe' = probe
         /\ thr' = [thr EXCEPT ![t] = Idle]
         /\ UNCHANGED handles

\* ------------------------------------------------------- exists, get_copy

\* Store::exists called on its own: the cache lookup under the read lock.
ExistsCheckCache(t, id) ==
  /\ thr[t] = Idle
  /\ IF poisoned THEN Return(t, "exists", id, "LockError")
     ELSE IF entries[id] # NoSlot THEN Return(t, "exists", id, "true")
     ELSE /\ thr' = [thr EXCEPT ![t] = [pc |-> "exists_backend", id |-> id]]
          /\ UNCHANGED <<entries, backend, handles, poisoned, last, hist, probe>>

ExistsIgnoresBackend(t) ==
  /\ thr[t].pc = "exists_backend"
  /\ Return(t, "exists", thr[t].id, "false")

\* Store::exists, the backend lookup.
ExistsCheckBackend(t) ==
  /\ thr[t].pc = "exists_backend"
  /\ Return(t, "exists", thr[t].id, IF BackendExists(backend, thr[t].id) THEN "true" ELSE "false")

\* `probe` in the runs that record what get_copy returns, before any call.
NoCopy == [op |-> "get_copy", id |-> 0, res |-> "", entry |-> NoEntry]

\* The value of `probe` after get_copy(id) returned res, with the entry e.
Copied(id, res, e) ==
  IF probe.op = "get_copy" THEN [op |-> "get_copy", id |-> id, res |-> res, entry |-> e]
  ELSE probe

\* get_copy returns from the call: nothing but the records of it changes.
ReturnCopy(t, id, res, e) ==
  /\ last' = Record("get_copy", id, res)
  /\ probe' = Copied(id, res, e)
  /\ thr' = [thr EXCEPT ![t] = Idle]
  /\ UNCHANGED <<entries, backend, handles, poisoned, hist>>

GetCopyThroughTheMap(t, id) ==
  /\ thr[t] = Idle
  /\ IF poisoned THEN ReturnCopy(t, id, "LockError", NoEntry)
     ELSE IF entries[id] # NoSlot /\ is_borrowed(entries[id])
     THEN ReturnCopy(t, id, "IdLocked", NoEntry)
     ELSE LET r == get_entry(backend, StoreEntryNew(id))
          IN  /\ entries' = [entries EXCEPT ![id] =
                               IF entries[id] = NoSlot THEN StoreEntryNew(id) ELSE entries[id]]
              /\ last' = Record("get_copy", id, IF r.ok THEN "Ok" ELSE r.err)
              /\ probe' = Copied(id, IF r.ok THEN "Ok" ELSE r.err, r.entry)
              /\ thr' = [thr EXCEPT ![t] = Idle]
              /\ UNCHANGED <<backend, handles, poisoned, hist>>

\* Store::get_copy: under the write lock, a Borrowed slot refuses; otherwise a
\* StoreEntry made for the call, and never inserted, reads the file of id.
get_copy(t, id) ==
  /\ thr[t] = Idle
  /\ IF poisoned THEN ReturnCopy(t, id, "LockError", NoEntry)
     ELSE IF entries[id] # NoSlot /\ is_borrowed(entries[id])
     THEN ReturnCopy(t, id, "IdLocked", NoEntry)
     ELSE LET r == get_entry(backend, StoreEntryNew(id))
          IN  ReturnCopy(t, id, IF r.ok THEN "Ok" ELSE r.err, r.entry)

\* ---------------------------------------------- an Entry outside the store

\* Entry::new(loc) kept in `probe`, before anything was done with it.
ProbeNew(loc) ==
  [op |-> "new", res |-> "Ok", buf |-> <<>>, out |-> <<>>,
   entry |-> [location |-> loc, header |-> default_header, content |-> <<"">>]]

\* Entry::from_str(id, buf): the entry parsed, or the error and no new entry.
\* The runs parse one buffer into a new entry and replace from one more.
ProbeFromStr(id, buf) ==
  /\ probe.op = "new"
  /\ LET r == Entry_from_str(id, buf)
     IN  probe' = IF r.ok
                  THEN [op |-> "from_str", res |-> "Ok", buf |-> buf, out |-> <<>>, entry |-> r.entry]
                  ELSE [op |-> "from_str", res |-> r.err, buf |-> buf, out |-> <<>>,
                        entry |-> probe.entry]
  /\ UNCHANGED <<entries, backend, handles, thr, poisoned, last, hist>>

\* Entry::to_str of the entry; `buf` stays only when the entry is what
\* from_str just made of it.
ProbeToStr ==
  /\ probe.op \notin {"none", "to_str"}
  /\ probe' = [probe EXCEPT !.op = "to_str", !.res = "Ok",
                            !.out = Entry_to_str(probe.entry),
                            !.buf = IF probe.op = "from_str" /\ probe.res = "Ok" THEN @ ELSE <<>>]
  /\ UNCHANGED <<entries, backend, handles, thr, poisoned, last, hist>>

ReplaceAssignsBeforeParsing(buf) ==
  /\ probe.op \in {"new", "from_str", "get_header_mut"}
  /\ LET r == entry_buffer_to_header_content(buf)
     IN  probe' = IF r.ok
                  THEN [op |-> "replace_from_buffer", res |-> "Ok", buf |-> buf, out |-> <<>>,
                        entry |-> [probe.entry EXCEPT !.header = r.header, !.content = r.content]]
                  ELSE [op |-> "replace_from_buffer", res |-> r.err, buf |-> buf, out |-> <<>>,
                        entry |-> [probe.entry EXCEPT !.content = <<"">>]]
  /\ UNCHANGED <<entries, backend, handles, thr, poisoned, last, hist>>

\* Entry::replace_from_buffer(buf): the buffer is parsed before either field
\* is assigned.
replace_from_buffer(buf) ==
  /\ probe.op \in {"new", "from_str", "get_header_mut"}
  /\ LET r == entry_buffer_to_header_content(buf)
     IN  probe' = IF r.ok
                  THEN [op |-> "replace_from_buffer", res |-> "Ok", buf |-> buf, out |-> <<>>,
                        entry |-> [probe.entry EXCEPT !.header = r.header, !.content = r.content]]
                  ELSE [op |-> "replace_from_buffer", res |-> r.err, buf |-> buf, out |-> <<>>,
                        entry |-> probe.entry]
  /\ UNCHANGED <<entries, backend, handles, thr, poisoned, last, hist>>

\* Entry::get_header_mut: the holder of the entry writes a header.
ProbeSetHeader(h) ==
  /\ probe.op = "new"
  /\ probe' = [op |-> "get_header_mut", res |-> "Ok", buf |-> <<>>, out |-> <<>>,
               entry |-> [probe.entry EXCEPT !.header = h]]
  /\ UNCHANGED <<entries, backend, handles, thr, poisoned, last, hist>>

\* Entry::verify called on the entry.
ProbeVerify ==
  /\ probe.op \notin {"none", "verify"}
  /\ probe' = [op |-> "verify", res |-> verify(probe.entry.header), buf |-> <<>>, out |-> <<>>,
               entry |-> probe.entry]
  /\ UNCHANGED <<entries, backend, handles, thr, poisoned, last, hist>>

\* No store operation runs: an Entry is made, parsed, printed and verified.
InitEntry ==
  /\ StoreNew
  /\ backend = [i \in StoreIds |-> NoFile]
  /\ thr = [t \in Threads |-> Parked]
  /\ last = Unobserved
  /\ hist = HistNew(FALSE, FALSE)
  /\ probe \in {ProbeNew(id) : id \in StoreIds}

NextEntry ==
  \/ \E id \in StoreIds, buf \in Buffers : ProbeFromStr(id, buf)
  \/ ProbeToStr
  \/ \E buf \in Buffers : replace_from_buffer(buf)
  \/ \E h \in Headers : ProbeSetHeader(h)
  \/ ProbeVerify

SpecEntry == InitEntry /\ [][NextEntry]_vars

\* ------------------------------------------------- a StoreId outside the store

\* A path is whether it starts at the root ("/") and the segments between its
\* separators, as written: "." and ".." are segments like any other until
\* Path::components reads them.
MaxPathLen == 2

MaxPushes == 2

MaxNames == 3

Segments == {"a", "b", ".", ".."}

Paths == [abs : BOOLEAN, segs : UNION {[1..n -> Segments] : n \in 0..MaxPathLen}]

\* The paths handed to local_push: the empty one and those of one segment.
PushArgs == {q \in Paths : Len(q.segs) <= 1}

\* The lists of names handed to is_in_collection.
NameLists == UNION {[1..n -> {"a", "b", ".."}] : n \in 0..MaxNames}

\* The roots of the stores the ids are joined with.
Bases == {[abs |-> TRUE, segs |-> <<"tmp">>], [abs |-> FALSE, segs |-> <<"st", "..">>]}

\* Path::is_absolute (Unix): the path has a root.
is_absolute(path) == path.abs

RECURSIVE SegComponents(_, _)
\* The components of the segments: "." counts only at the very start of a
\* relative path, ".." is the parent directory, any other segment is Normal.
SegComponents(segs, first) ==
  IF segs = <<>> THEN <<>>
  ELSE LET sg == Head(segs)
           c == IF sg = "." THEN (IF first THEN <<[kind |-> "CurDir", name |-> ""]>> ELSE <<>>)
                ELSE IF sg = ".." THEN <<[kind |-> "ParentDir", name |-> ""]>>
                ELSE <<[kind |-> "Normal", name |-> sg]>>
       IN  c \o SegComponents(Tail(segs), FALSE)

\* StoreId::components, which is Path::components of the local part.
components(path) ==
  (IF path.abs THEN <<[kind |-> "RootDir", name |-> ""]>> ELSE <<>>)
  \o SegComponents(path.segs, ~path.abs)

\* PathBuf::push: an absolute argument replaces the path, any other is
\* appended to it.
push(path, arg) ==
  IF is_absolute(arg) THEN arg ELSE [abs |-> path.abs, segs |-> path.segs \o arg.segs]

IdNewAcceptsAbsolute(path) == [ok |-> TRUE, id |-> path]

\* StoreId::new
StoreId_new(path) ==
  IF is_absolute(path) THEN [ok |-> FALSE, id |-> path] ELSE [ok |-> TRUE, id |-> path]

\* StoreId::local_push: the new local part of the id.
local_push(id, arg) == push(id, arg)

\* StoreId::is_in_collection: the components zipped with the names, every pair
\* a Normal component equal to its name; the zip ends with the shorter list.
is_in_collection(id, colls) ==
  LET c == components(id)
      n == IF Len(c) < Len(colls) THEN Len(c) ELSE Len(colls)
  IN  \A i \in 1..n : c[i].kind = "Normal" /\ c[i].name = colls[i]

\* StoreId::with_base: the pair of the root and the local part.
with_base(id, base) == [base |-> base, path |-> id]

\* StoreIdWithBase::into_pathbuf: the local part pushed onto the root.
into_pathbuf(wb) == [ok |-> TRUE, path |-> push(wb.base, wb.path)]

\* StoreIdWithBase::without_base
without_base(wb) == wb.path

\* StoreId::new(path) called on the path the run starts with.
IdNew ==
  /\ probe.op = "path"
  /\ LET r == StoreId_new(probe.path)
     IN  probe' = [op |-> "new", res |-> IF r.ok THEN "Ok" ELSE "AbsolutePathError",
                   path |-> probe.path, id |-> r.id, pushes |-> 0]
  /\ UNCHANGED <<entries, backend, handles, thr, poisoned, last, hist>>

\* id.local_push(arg) on the StoreId that new returned.
IdLocalPush(arg) ==
  /\ probe.op \in {"new", "local_push"} /\ probe.res = "Ok"
  /\ probe.pushes < MaxPushes
  /\ probe' = [op |-> "local_push", res |-> "Ok", before |-> probe.id, arg |-> arg,
               id |-> local_push(probe.id, arg), pushes |-> probe.pushes + 1]
  /\ UNCHANGED <<entries, backend, handles, thr, poisoned, last, hist>>

\* id.is_in_collection(colls)
IdIsInCollection(colls) ==
  /\ probe.op \in {"new", "local_push"} /\ probe.res = "Ok"
  /\ probe' = [op |-> "is_in_collection", res |-> "Ok", id |-> probe.id, colls |-> colls,
               out |-> is_in_collection(probe.id, colls)]
  /\ UNCHANGED <<entries, backend, handles, thr, poisoned, last, hist>>

\* id.with_base(base).into_pathbuf() and id.with_base(base).without_base()
IdWithBase(base) ==
  /\ probe.op \in {"new", "local_push"} /\ probe.res = "Ok"
  /\ LET wb == with_base(probe.id, base)
         r == into_pathbuf(wb)
     IN  probe' = [op |-> "with_base", res |-> IF r.ok THEN "Ok" ELSE "Err", id |-> probe.id,
                   base |-> base, out |-> r.path, back |-> without_base(wb)]
  /\ UNCHANGED <<entries, backend, handles, thr, poisoned, last, hist>>

\* No store operation runs: a path is made a StoreId, which is pushed onto,
\* asked for its collections and joined with a root.
InitId ==
  /\ StoreNew
  /\ backend = [i \in StoreIds |-> NoFile]
  /\ thr = [t \in Threads |-> Parked]
  /\ last = Unobserved
  /\ hist = HistNew(FALSE, FALSE)
  /\ probe \in {[op |-> "path", path |-> q] : q \in Paths}

NextId ==
  \/ IdNew
  \/ \E arg \in PushArgs : IdLocalPush(arg)
  \/ \E colls \in NameLists : IdIsInCollection(colls)
  \/ \E base \in Bases : IdWithBase(base)

SpecId == InitId /\ [][NextId]_vars

\* Store::cache_size: the number of slots in the map.
cache_size == Cardinality({i \in StoreIds : entries[i] # NoSlot})

Next ==
  \E t \in Threads :
    \/ \E id \in StoreIds : CreateCheckCache(t, id)
    \/ CreateCheckBackend(t)
    \/ CreateInsert(t)
    \/ \E id \in StoreIds : Retrieve(t, id)
    \/ \E id \in StoreIds : GetCheckCache(t, id)
    \/ GetCheckBackend(t)
    \/ GetRetrieve(t)
    \/ \E h \in BagToSet(handles) : Update(t, h)
    \/ \E h \in BagToSet(handles) : Drop(t, h)
    \/ \E h \in BagToSet(handles), e \in UserEdits : Modify(h, e[1], e[2])
    \/ flush_cache(t)
    \/ \E id \in StoreIds : delete(t, id)
    \/ DeleteRemoveFile(t)
    \/ \E old \in StoreIds, new \in StoreIds : move_by_id(t, old, new)
    \/ \E h \in BagToSet(handles), new_id \in StoreIds : save_to(t, h, new_id)
    \/ \E h \in BagToSet(handles), new_id \in StoreIds : save_as(t, h, new_id)
    \/ SaveAsDrop(t)
    \/ \E id \in StoreIds : ExistsCheckCache(t, id)
    \/ ExistsCheckBackend(t)
    \/ \E id \in StoreIds : get_copy(t, id)

Spec == Init /\ [][Next]_vars

\* ------------------------------------------------------------- the claims

Borrowed(id) == entries[id] # NoSlot /\ is_borrowed(entries[id])

Present(id) == entries[id] # NoSlot /\ ~is_borrowed(entries[id])

\* C1: in every reachable state, under any interleaving of the operations of
\* any thread, no StoreId has two outstanding FileLockEntry handles.
C1_NoTwoHandles == \A id \in StoreIds : NumHandles(id) <= 1

\* A handle for an id is outstanding while another thread, inside get, is
\* about to borrow the same id.
C1_Witness ==
  \E t \in Threads : thr[t].pc = "get_retrieve" /\ NumHandles(thr[t].id) = 1

\* Thread t returns from op(id) with the error err, and the map, the backend
\* and the handles are what they were.
Failed(t, op, id, err) ==
  /\ thr'[t] = Idle
  /\ last # Unobserved => last' = Result(op, id, err)
  /\ UNCHANGED <<entries, backend, handles, poisoned>>

\* C2: retrieve(id) or get(id) on a Borrowed slot returns the error of the
\* borrow conflict in that very step (no waiting), hands out no handle, and
\* leaves the slot Borrowed and the backend unchanged.
C2_FailFastBorrowConflict ==
  [][\A t \in Threads, id \in StoreIds :
       /\ Retrieve(t, id) /\ Borrowed(id)
            => Failed(t, "retrieve", id, "EntryAlreadyBorrowed") /\ Borrowed(id)'
       /\ GetRetrieve(t) /\ thr[t].id = id /\ Borrowed(id)
            => Failed(t, "get", id, "EntryAlreadyBorrowed") /\ Borrowed(id)']_vars

\* get(id) just failed on a slot that is Borrowed by the one handle for id.
C2_Witness ==
  /\ last.op = "get" /\ last.res = "EntryAlreadyBorrowed"
  /\ Borrowed(last.id) /\ NumHandles(last.id) = 1

\* C3: right after a handle is released (dropped by its holder, or dropped at
\* the end of save_as), the slot of the handle's id has status Present.
C3_ReleaseMakesPresent ==
  [][\A t \in Threads :
       /\ \A h \in BagToSet(handles) : Drop(t, h) => Present(h.location)'
       /\ SaveAsDrop(t) => Present(thr[t].h.location)']_vars

\* C5: create(id) fails with AlreadyExists, changing nothing, at whichever of
\* its checks finds id in the map or in the backend; otherwise it inserts a
\* Borrowed slot for id and returns a handle holding the default entry at id.
\* A create(id) that follows a successful create(id), with or without the
\* release of the first handle in between, fails.
C5_ExclusiveCreate ==
  [][\A t \in Threads, id \in StoreIds :
       /\ CreateCheckCache(t, id) /\ ~poisoned /\ entries[id] # NoSlot
            => Failed(t, "create", id, "EntryAlreadyExists")
       /\ CreateCheckBackend(t) /\ thr[t].id = id /\ backend[id] # NoFile
            => Failed(t, "create", id, "EntryAlreadyExists")
       /\ CreateInsert(t) /\ thr[t].id = id /\ ~poisoned /\ entries[id] # NoSlot
            => Failed(t, "create", id, "EntryAlreadyExists")
       /\ CreateInsert(t) /\ thr[t].id = id /\ ~poisoned /\ entries[id] = NoSlot
            => /\ entries' = [entries EXCEPT ![id] = [id |-> id, file |-> id, status |-> "Borrowed"]]
               /\ handles' = handles (+) SetToBag({[location |-> id,
                                                    header |-> [imag |-> "table", version |-> "valid", other |-> "none"],
                                                    content |-> ""]})
               /\ backend' = backend
               /\ thr'[t] = Idle
               /\ last # Unobserved => last' = Result("create", id, "Ok")
       /\ CreateCheckCache(t, id) /\ last.op \in {"create", "drop"} /\ last.id = id /\ last.res = "Ok"
            => Failed(t, "create", id, "EntryAlreadyExists")]_vars

\* create(id) just failed for an id whose first handle was released and whose
\* slot was flushed: the entry is known from the backend alone.
C5_Witness ==
  /\ last = Result("create", last.id, "EntryAlreadyExists")
  /\ entries[last.id] = NoSlot /\ backend[last.id] # NoFile /\ backend[last.id] # Malformed

\* C6: retrieve(id) for an id in neither the map nor the backend succeeds,
\* inserts a Borrowed slot and returns the default entry at id; for an id whose
\* slot is absent or Present and whose backend file holds an entry, it returns
\* a handle holding that entry and marks the slot Borrowed.
C6_RetrieveContract ==
  [][\A t \in Threads, id \in StoreIds :
       Retrieve(t, id) /\ ~poisoned =>
         /\ entries[id] = NoSlot /\ backend[id] = NoFile
              => /\ entries' = [entries EXCEPT ![id] = [id |-> id, file |-> id, status |-> "Borrowed"]]
                 /\ handles' = handles (+) SetToBag({[location |-> id,
                                                      header |-> [imag |-> "table", version |-> "valid", other |-> "none"],
                                                      content |-> ""]})
                 /\ backend' = backend
         /\ ~Borrowed(id) /\ backend[id].kind = "entry"
              => /\ handles' = handles (+) SetToBag({[location |-> id,
                                                      header |-> backend[id].header,
                                                      content |-> backend[id].content]})
                 /\ Borrowed(id)']_vars

\* C7: for an id that is in neither the map nor the backend, get(id) returns
\* Ok(None), inserts no slot and creates no file.
C7_GetDoesNotCreate ==
  [][\A t \in Threads, id \in StoreIds :
       /\ GetCheckCache(t, id) /\ ~poisoned /\ entries[id] = NoSlot
            => thr'[t] = [pc |-> "get_backend", id |-> id]
               /\ UNCHANGED <<entries, backend, handles, poisoned, last>>
       /\ GetCheckBackend(t) /\ thr[t].id = id /\ backend[id] = NoFile
            => Failed(t, "get", id, "None")]_vars

\* get(id) just returned Ok(None) and id is still in neither place.
C7_Witness ==
  /\ last.op = "get" /\ last.res = "None"
  /\ entries[last.id] = NoSlot /\ backend[last.id] = NoFile

\* C10: delete(id) fails with the lock error when the slot of id is Borrowed
\* and with FileNotFound when id is in neither the map nor the backend; the
\* map, every slot's status and the backend are unchanged in both cases.
C10_DeleteErrorCases ==
  [][\A t \in Threads, id \in StoreIds :
       /\ delete(t, id) /\ Borrowed(id) => Failed(t, "delete", id, "LockError")
       /\ delete(t, id) /\ ~poisoned /\ entries[id] = NoSlot /\ backend[id] = NoFile
            => Failed(t, "delete", id, "FileNotFound")]_vars

\* delete just refused an id whose slot is Borrowed by an outstanding handle,
\* while another id is in neither place (its delete would report not found).
C10_Witness ==
  /\ last.op = "delete" /\ last.res = "LockError"
  /\ Borrowed(last.id) /\ NumHandles(last.id) = 1
  /\ \E id \in StoreIds : entries[id] = NoSlot /\ backend[id] = NoFile

\* C4: in every reachable state a Borrowed slot has exactly one outstanding
\* handle for its id and a Present slot has none.
C4_StatusMirrorsHandles ==
  \A id \in StoreIds :
    /\ Borrowed(id) => NumHandles(id) = 1
    /\ Present(id) => NumHandles(id) = 0

C9_ReleaseVisibleToNextBorrower ==
  [][\A t \in Threads, id \in StoreIds :
       /\ hist.released[id].location # 0
       /\ Retrieve(t, id) \/ (GetRetrieve(t) /\ thr[t].id = id)
       /\ handles' # handles
       => handles' = AddHandle(hist.released[id])]_vars

\* C11: delete(id) on an id that is in neither the map nor the backend fails;
\* after create(id) succeeded and its handle was released, delete(id) succeeds
\* and removes the slot and the file; right after that, exists(id) returns
\* false and get(id) returns Ok(None).
C11_DeleteLifecycle ==
  [][\A t \in Threads, id \in StoreIds :
       /\ delete(t, id) /\ entries[id] = NoSlot /\ backend[id] = NoFile
            => Failed(t, "delete", id, "FileNotFound")
       /\ delete(t, id) /\ hist.created[id] /\ NumHandles(id) = 0
            => /\ thr'[t] = [pc |-> "delete_remove", id |-> id]
               /\ entries'[id] = NoSlot
               /\ backend[id] # NoFile
       /\ DeleteRemoveFile(t) /\ thr[t].id = id /\ backend[id] # NoFile
            => /\ last' = Result("delete", id, "Ok")
               /\ entries'[id] = NoSlot /\ backend'[id] = NoFile
       /\ ExistsCheckCache(t, id) /\ last = Result("delete", id, "Ok")
            => thr'[t].pc = "exists_backend"
       /\ ExistsCheckBackend(t) /\ thr[t].id = id /\ last = Result("delete", id, "Ok")
            => last' = Result("exists", id, "false")
       /\ GetCheckCache(t, id) /\ last = Result("delete", id, "Ok")
            => thr'[t].pc = "get_backend"
       /\ GetCheckBackend(t) /\ thr[t].id = id /\ last = Result("delete", id, "Ok")
            => Failed(t, "get", id, "None")]_vars

\* C12: after create(old) succeeded and its handle was released, and with new
\* in neither the map nor the backend, move_by_id(old, new) succeeds, the slot
\* old had in the map is under new and old has none; right after that,
\* get(old) returns Ok(None) and get(new), new holding the moved entry, returns
\* Ok(Some(handle)).
C12_MoveSemantics ==
  [][\A t \in Threads, old \in StoreIds, new \in StoreIds :
       /\ /\ move_by_id(t, old, new)
          /\ hist.created[old] /\ NumHandles(old) = 0
          /\ entries[new] = NoSlot /\ backend[new] = NoFile
          => /\ last' = Result("move_by_id", old, "Ok")
             /\ entries'[old] = NoSlot
             /\ entries[old] # NoSlot => entries'[new] # NoSlot
       /\ GetCheckCache(t, old) /\ last = Result("move_by_id", old, "Ok")
            => thr'[t].pc = "get_backend"
       /\ GetCheckBackend(t) /\ thr[t].id = old /\ last = Result("move_by_id", old, "Ok")
            => Failed(t, "get", old, "None")
       /\ /\ GetRetrieve(t) /\ thr[t].id = new /\ new # old
          /\ last = Result("move_by_id", old, "Ok") /\ backend[new].kind = "entry"
          => /\ last' = Result("get", new, "Ok")
             /\ NumHandles(new)' = 1]_vars

\* C13: move_by_id(old, new) returns an error whenever new is in the map or in
\* the backend, whenever the slot of old is Borrowed, and whenever old is in
\* neither the map nor the backend; whenever it returns an error, the map and
\* the backend are what they were before the call.
C13_FailedMoveChangesNothing ==
  [][\A t \in Threads, old \in StoreIds, new \in StoreIds :
       move_by_id(t, old, new) =>
         /\ last'.op = "move_by_id" /\ last'.id = old
         /\ \/ entries[new] # NoSlot
            \/ backend[new] # NoFile
            \/ Borrowed(old)
            \/ entries[old] = NoSlot /\ backend[old] = NoFile
            => last'.res # "Ok"
         /\ last'.res # "Ok" => UNCHANGED <<entries, backend, handles>>]_vars

\* move_by_id just refused to move an id whose slot is Borrowed by an
\* outstanding handle, to an id that is in neither place.
C13_Witness ==
  /\ last.op = "move_by_id" /\ last.res = "EntryAlreadyBorrowed"
  /\ Borrowed(last.id) /\ NumHandles(last.id) = 1
  /\ \E new \in StoreIds : entries[new] = NoSlot /\ backend[new] = NoFile

\* C14: after flush_cache() the map holds exactly the slots that were Borrowed
\* before the call, each as it was, and the backend is unchanged; so the
\* write-back of every outstanding handle does what it would have done before
\* the call, and every id whose slot was evicted can be read from the backend.
C14_FlushEvictsPresent ==
  [][\A t \in Threads :
       flush_cache(t) /\ ~poisoned =>
         /\ entries' = [i \in StoreIds |-> IF Borrowed(i) THEN entries[i] ELSE NoSlot]
         /\ backend' = backend
         /\ handles' = handles
         /\ last # Unobserved => last' = Result("flush_cache", 0, "Ok")
         /\ \A h \in BagToSet(handles) :
              /\ _update(h, TRUE)'.res = _update(h, TRUE).res
              /\ _update(h, TRUE)'.backend = _update(h, TRUE).backend
              /\ _update(h, TRUE)'.entries[h.location] = _update(h, TRUE).entries[h.location]
         /\ \A i \in StoreIds : Present(i) => get_entry(backend', StoreEntryNew(i)).ok]_vars

\* flush_cache just returned: a slot with an outstanding handle is still in the
\* map, and an entry of the backend has no slot.
C14_Witness ==
  /\ last = Result("flush_cache", 0, "Ok")
  /\ \E i \in StoreIds : Borrowed(i) /\ NumHandles(i) = 1
  /\ \E i \in StoreIds : entries[i] = NoSlot /\ backend[i].kind = "entry"

\* C15: when no handle is outstanding, flush_cache() leaves the map with
\* element count 0.
C15_CacheEmptiesAfterRelease ==
  [][\A t \in Threads :
       flush_cache(t) /\ ~poisoned /\ TotalHandles = 0 => cache_size' = 0]_vars

\* C17: in every reachable state, under any interleaving, the write-back of
\* every outstanding handle would find the handle's id in the map with status
\* Borrowed: no assertion of _update fails and _update never returns
\* EntryNotFound (and the lock is never poisoned by a failed assertion).
C17_WriteBackFindsBorrowedSlot ==
  /\ ~poisoned
  /\ \A h \in Outstanding :
       /\ Borrowed(h.location)
       /\ _update(h, TRUE).res \notin {"Panic", "EntryNotFound"}
       /\ _update(h, FALSE).res \notin {"Panic", "EntryNotFound"}

\* One thread is about to drop the handle save_as consumed while another
\* handle is outstanding and another thread is inside delete.
C17_Witness ==
  /\ handles # EmptyBag
  /\ \E t \in Threads : thr[t].pc = "save_as_drop"
  /\ \E t \in Threads : thr[t].pc = "delete_remove"

\* C16: when update(handle) or a release (the drop of a handle, by its holder
\* or at the end of save_as) runs with an entry whose verify() fails, the
\* backend is unchanged; update returns the verification error and keeps the
\* handle with the caller, a release returns normally.
C16_VerifyBlocksWrite ==
  [][\A t \in Threads :
       /\ \A h \in BagToSet(handles) :
            verify(h.header) # "Ok" =>
              /\ Update(t, h) => /\ backend' = backend
                                 /\ last' = Result("update", h.location, verify(h.header))
                                 /\ handles' = handles
              /\ Drop(t, h) => /\ backend' = backend
                               /\ last' = Result("drop", h.location, "Ok")
                               /\ handles' = handles (-) SetToBag({h})
       /\ SaveAsDrop(t) /\ verify(thr[t].h.header) # "Ok"
            => /\ backend' = backend
               /\ last' = Result("save_as", thr[t].id, thr[t].res)]_vars

\* update just returned the verification error for a handle that is still
\* outstanding, and the file of its id holds an entry that passes.
C16_Witness ==
  /\ last.op = "update" /\ last.res # "Ok"
  /\ \E h \in BagToSet(handles) : h.location = last.id /\ verify(h.header) = last.res
  /\ backend[last.id].kind = "entry" /\ verify(backend[last.id].header) = "Ok"

\* C18: verify() returns Ok exactly when (a) the top-level key 'imag' is a
\* table, (b) 'imag.version' is a string that parses as a semantic version and
\* (c) every top-level value is a table: a header without 'imag', one whose
\* version is missing, not a string or not a version, and one with a non-table
\* at the root each fail, and the default header passes.
C18_VerifyIsThreeRules ==
  probe.op = "verify" =>
    LET h == probe.entry.header
    IN  /\ probe.res = "Ok" <=> /\ h.imag = "table"
                                /\ h.version = "valid"
                                /\ h.imag # "scalar" /\ h.other # "scalar"
        /\ h.imag = "absent" => probe.res # "Ok"
        /\ h.version \in {"absent", "nonstring", "invalid"} => probe.res # "Ok"
        /\ h.other = "scalar" => probe.res # "Ok"
        /\ h = default_header => probe.res = "Ok"

\* verify() just refused a header whose 'imag' section and version are in
\* order, for the value at the root that is not a table.
C18_Witness ==
  /\ probe.op = "verify" /\ probe.res = "NonTableInBaseTable"
  /\ probe.entry.header.imag = "table" /\ probe.entry.header.version = "valid"

\* C19: when replace_from_buffer(buf) returns an error the header and the
\* content of the Entry are what they were; when it returns Ok they are the
\* ones parsed from buf; the location is unchanged either way.  (A step that
\* leaves `probe` with op "replace_from_buffer" is a call of it on probe'.buf.)
C19_ReplaceAllOrNothing ==
  [][probe'.op = "replace_from_buffer" =>
         LET r == entry_buffer_to_header_content(probe'.buf)
         IN  /\ probe'.entry.location = probe.entry.location
             /\ probe'.res # "Ok" => probe'.entry = probe.entry
             /\ probe'.res = "Ok" => /\ r.ok
                                     /\ probe'.entry.header = r.header
                                     /\ probe'.entry.content = r.content
             /\ ~r.ok => probe'.res # "Ok"]_vars

\* replace_from_buffer just failed on an entry that had a content and a
\* header other than the default ones, and the entry still has them.
C19_Witness ==
  /\ probe.op = "replace_from_buffer" /\ probe.res = "MalformedEntry"
  /\ probe.entry.content # <<"">> /\ probe.entry.header # default_header

\* The lines of the header of a buffer, between its two "---" lines.
HeaderLines(buf) == SubSeq(buf, 2, SecondDelimiter(buf) - 1)

\* "---\n" + header + "---\n" + content, the header being TOML.
WellFormed(buf) ==
  /\ Len(buf) > 0 /\ buf[1] = "---"
  /\ SecondDelimiter(buf) # 0 /\ SecondDelimiter(buf) < Len(buf)
  /\ toml_from_str(HeaderLines(buf)).ok

\* C20 as stated: for every well-formed buffer, from_str followed by to_str
\* returns the buffer.
C20_RoundTrip ==
  probe.op = "to_str" /\ probe.buf # <<>> /\ WellFormed(probe.buf)
    => probe.out = probe.buf

\* C20, amended: for every well-formed buffer whose header text is the
\* pretty-printed form of the header it denotes, from_str followed by to_str
\* returns the buffer, also when the content ends in blank lines.
C20_RoundTripOfPrettyHeader ==
  /\ probe.op = "to_str" /\ probe.buf # <<>> /\ WellFormed(probe.buf)
  /\ HeaderLines(probe.buf) = to_string_pretty(toml_from_str(HeaderLines(probe.buf)).val)
  => probe.out = probe.buf

\* to_str just returned the buffer from_str was given, a buffer whose content
\* ends in two blank lines.
C20_Witness ==
  /\ probe.op = "to_str" /\ probe.buf # <<>> /\ probe.out = probe.buf
  /\ Len(probe.buf) > 4
  /\ probe.buf[Len(probe.buf)] = "" /\ probe.buf[Len(probe.buf) - 1] = ""
  /\ probe.buf[Len(probe.buf) - 2] = "Hai"

\* C21: save_to(handle, new_id) and save_as(handle, new_id) return an error
\* whenever new_id is in the map or in the backend, and then leave the map and
\* the backend (the entry at new_id in particular) unchanged.
C21_SaveRefusesExistingTarget ==
  [][\A t \in Threads, h \in BagToSet(handles), new_id \in StoreIds :
       entries[new_id] # NoSlot \/ backend[new_id] # NoFile =>
         /\ save_to(t, h, new_id)
              => /\ last'.op = "save_to" /\ last'.res # "Ok"
                 /\ UNCHANGED <<entries, backend>>
         /\ save_as(t, h, new_id)
              => /\ thr'[t].pc = "save_as_drop" /\ thr'[t].res # "Ok"
                 /\ UNCHANGED <<entries, backend>>]_vars

\* C22: when save_as(handle, new_id) has succeeded and returned, the handle
\* consumed, the backend holds the entry at new_id and no entry at the id the
\* handle had.
C22_SaveAsRemovesOriginal ==
  [][\A t \in Threads :
       SaveAsDrop(t) /\ thr[t].res = "Ok" =>
         /\ last' = Result("save_as", thr[t].id, "Ok")
         /\ backend'[thr[t].id] # NoFile
         /\ backend'[thr[t].h.location] = NoFile]_vars

\* C23: exists(id) returns true if and only if id is a key of the map or the
\* backend has a file at id, and changes neither the map nor the backend.
C23_ExistsIsCacheOrBackend ==
  [][\A t \in Threads, id \in StoreIds :
       /\ ExistsCheckCache(t, id) /\ ~poisoned
            => /\ UNCHANGED <<entries, backend, handles>>
               /\ entries[id] # NoSlot => Failed(t, "exists", id, "true")
               /\ entries[id] = NoSlot => thr'[t] = [pc |-> "exists_backend", id |-> id] /\ last' = last
       /\ ExistsCheckBackend(t) /\ thr[t].id = id
            => /\ UNCHANGED <<entries, backend, handles>>
               /\ last'.op = "exists" /\ last'.id = id /\ last'.res \in {"true", "false"}
               /\ last'.res = "true" <=> entries[id] # NoSlot \/ backend[id] # NoFile]_vars

\* exists just returned true for an id that has a file and no slot, while the
\* other id has a slot and no file.
C23_Witness ==
  /\ last.op = "exists" /\ last.res = "true"
  /\ entries[last.id] = NoSlot /\ backend[last.id] # NoFile
  /\ \E id \in StoreIds : entries[id] # NoSlot /\ backend[id] = NoFile

\* One id more than the other runs use, so that a borrowed id can stand next to
\* a move between two others.
WideIds == 1..(NumIds + 1)

\* A fresh store over WideIds; one thread calls it and `last` is recorded.
InitWide ==
  /\ entries = [i \in WideIds |-> NoSlot]
  /\ backend \in {[i \in WideIds |-> IF i \in S THEN Malformed ELSE NoFile] : S \in SUBSET MalformedIds}
  /\ handles = EmptyBag
  /\ poisoned = FALSE
  /\ thr = [t \in Threads |-> IF t = 1 THEN Idle ELSE Parked]
  /\ last = Result("none", 0, "Ok")
  /\ hist = HistNew(FALSE, FALSE)
  /\ probe = NoProbe

\* The operations on single ids, and the release of handles.
NextWide ==
  \E t \in Threads :
    \/ \E id \in WideIds : CreateCheckCache(t, id)
    \/ CreateCheckBackend(t)
    \/ CreateInsert(t)
    \/ \E id \in WideIds : Retrieve(t, id)
    \/ \E id \in WideIds : GetCheckCache(t, id)
    \/ GetCheckBackend(t)
    \/ GetRetrieve(t)
    \/ \E h \in BagToSet(handles) : Drop(t, h)
    \/ \E id \in WideIds : delete(t, id)
    \/ DeleteRemoveFile(t)
    \/ \E old \in WideIds, new \in WideIds : move_by_id(t, old, new)
    \/ \E id \in WideIds : ExistsCheckCache(t, id)
    \/ ExistsCheckBackend(t)

SpecWide == InitWide /\ [][NextWide]_vars

\* C24: while a handle for id A is outstanding, every operation on another id
\* B (create, retrieve, get, delete, exists, and move_by_id between ids other
\* than A) can take its step, and what it returns and does is decided by the
\* slots and files of its own ids alone, as it is when A is not borrowed: no
\* error comes from A's borrow, and A's slot, file and handle stay as they are.
C24_OtherIdsUnaffectedByBorrow ==
  [][\A t \in Threads, A \in WideIds, B \in WideIds :
       A # B /\ Borrowed(A) /\ NumHandles(A) = 1 /\ ~poisoned =>
         LET file == IF entries[B] = NoSlot THEN B ELSE entries[B].file
             kept == entries'[A] = entries[A] /\ backend'[A] = backend[A] /\ NumHandles(A)' = 1
             same == UNCHANGED <<entries, backend, handles, last>>
             borrow(op) ==
               IF Borrowed(B) THEN Failed(t, op, B, "EntryAlreadyBorrowed")
               ELSE IF backend[file] = Malformed
               THEN last' = Result(op, B, "ParseError") /\ handles' = handles /\ kept
               ELSE last' = Result(op, B, "Ok") /\ Borrowed(B)' /\ NumHandles(B)' = 1 /\ kept
         IN  /\ thr[t] = Idle /\ TotalHandles < MaxHandles
                  => /\ ENABLED CreateCheckCache(t, B) /\ ENABLED Retrieve(t, B)
                     /\ ENABLED GetCheckCache(t, B) /\ ENABLED delete(t, B)
                     /\ ENABLED ExistsCheckCache(t, B)
                     /\ \A C \in WideIds \ {A} : ENABLED move_by_id(t, B, C)
             /\ CreateCheckCache(t, B)
                  => IF entries[B] # NoSlot THEN Failed(t, "create", B, "EntryAlreadyExists")
                     ELSE thr'[t] = [pc |-> "create_backend", id |-> B] /\ same
             /\ CreateCheckBackend(t) /\ thr[t].id = B
                  => IF backend[B] # NoFile THEN Failed(t, "create", B, "EntryAlreadyExists")
                     ELSE thr'[t] = [pc |-> "create_insert", id |-> B] /\ same
             /\ CreateInsert(t) /\ thr[t].id = B
                  => IF entries[B] # NoSlot THEN Failed(t, "create", B, "EntryAlreadyExists")
                     ELSE /\ last' = Result("create", B, "Ok")
                          /\ Borrowed(B)' /\ NumHandles(B)' = 1 /\ backend' = backend /\ kept
             /\ Retrieve(t, B) => borrow("retrieve")
             /\ GetCheckCache(t, B)
                  => /\ thr'[t] = [pc |-> IF entries[B] # NoSlot THEN "get_retrieve" ELSE "get_backend",
                                    id |-> B]
                     /\ same
             /\ GetCheckBackend(t) /\ thr[t].id = B
                  => IF backend[B] = NoFile THEN Failed(t, "get", B, "None")
                     ELSE thr'[t] = [pc |-> "get_retrieve", id |-> B] /\ same
             /\ GetRetrieve(t) /\ thr[t].id = B => borrow("get")
             /\ delete(t, B)
                  => IF Borrowed(B) THEN Failed(t, "delete", B, "LockError")
                     ELSE IF entries[B] = NoSlot /\ backend[B] = NoFile
                     THEN Failed(t, "delete", B, "FileNotFound")
                     ELSE /\ thr'[t] = [pc |-> "delete_remove", id |-> B]
                          /\ entries' = [entries EXCEPT ![B] = NoSlot]
                          /\ UNCHANGED <<backend, handles, last>>
             /\ DeleteRemoveFile(t) /\ thr[t].id = B
                  => IF backend[B] = NoFile THEN Failed(t, "delete", B, "FileError")
                     ELSE /\ last' = Result("delete", B, "Ok")
                          /\ backend' = [backend EXCEPT ![B] = NoFile]
                          /\ UNCHANGED <<entries, handles>>
             /\ \A C \in WideIds \ {A} :
                  move_by_id(t, B, C)
                    => IF entries[C] # NoSlot THEN Failed(t, "move_by_id", B, "EntryAlreadyExists")
                       ELSE IF Borrowed(B) THEN Failed(t, "move_by_id", B, "EntryAlreadyBorrowed")
                       ELSE IF backend[C] # NoFile THEN Failed(t, "move_by_id", B, "EntryAlreadyExists")
                       ELSE IF backend[B] = NoFile THEN Failed(t, "move_by_id", B, "RenameError")
                       ELSE /\ last' = Result("move_by_id", B, "Ok")
                            /\ backend' = [[backend EXCEPT ![C] = backend[B]] EXCEPT ![B] = NoFile]
                            /\ entries'[B] = NoSlot
                            /\ (entries'[C] # NoSlot) = (entries[B] # NoSlot)
                            /\ handles' = handles /\ kept
             /\ ExistsCheckCache(t, B)
                  => IF entries[B] # NoSlot THEN Failed(t, "exists", B, "true")
                     ELSE thr'[t] = [pc |-> "exists_backend", id |-> B] /\ same
             /\ ExistsCheckBackend(t) /\ thr[t].id = B
                  => Failed(t, "exists", B, IF backend[B] # NoFile THEN "true" ELSE "false")]_vars

\* move_by_id just moved an entry between two ids while a third id is
\* Borrowed by its outstanding handle.
C24_Witness ==
  /\ last.op = "move_by_id" /\ last.res = "Ok"
  /\ \E A \in WideIds, C \in WideIds :
       /\ A # last.id /\ A # C /\ C # last.id
       /\ Borrowed(A) /\ NumHandles(A) = 1
       /\ backend[C] # NoFile /\ backend[last.id] = NoFile

\* The next step of the operation thread t is in: each one takes the map lock
\* that no step holds on to, or calls the backend under no lock.
Step(t) ==
  \/ CreateCheckBackend(t)
  \/ CreateInsert(t)
  \/ GetCheckBackend(t)
  \/ GetRetrieve(t)
  \/ DeleteRemoveFile(t)
  \/ SaveAsDrop(t)
  \/ ExistsCheckBackend(t)

\* Fair scheduling: a thread that can take its next step does so eventually.
\* Nothing obliges a thread to call the store or to release a handle.
SpecFair == Init /\ [][Next]_vars /\ \A t \in Threads : WF_vars(Step(t))

\* C25: under fair scheduling every operation a thread is in returns, whatever
\* the other threads do and whether or not they ever release their handles;
\* its next step never waits for a slot to stop being Borrowed nor for a lock
\* the thread holds itself.  (The runs keep at most MaxHandles handles; a step
\* is held back only where it would pass that number.)
C25_EveryOperationReturns ==
  \A t \in Threads :
    /\ [](thr[t] # Idle /\ TotalHandles < MaxHandles => ENABLED Step(t))
    /\ [](thr[t] # Idle => <>(thr[t] = Idle \/ TotalHandles >= MaxHandles))

\* A thread is inside get, about to borrow an id that is Borrowed by a handle
\* nobody has released, while the other thread is inside save_as.
C25_Witness ==
  \E t \in Threads, u \in Threads :
    /\ thr[t].pc = "get_retrieve" /\ Borrowed(thr[t].id) /\ NumHandles(thr[t].id) = 1
    /\ thr[u].pc = "save_as_drop"

\* C26: in every reachable state, the slot stored under a key k of the map has
\* id = k; also after move_by_id has re-keyed a slot.
C26_KeyEqualsSlotId ==
  \A k \in DOMAIN entries : entries[k] # NoSlot => entries[k].id = k

\* The map holds a slot that move_by_id re-keyed (its file instance is the one
\* made for the old key) next to a slot made for its own key.
C26_Witness ==
  /\ \E k \in StoreIds : entries[k] # NoSlot /\ entries[k].file # k /\ entries[k].id = k
  /\ \E k \in StoreIds : entries[k] # NoSlot /\ entries[k].file = k /\ is_borrowed(entries[k])

C28_NeverAbsolute ==
  /\ probe.op \in {"new", "local_push"} /\ probe.res = "Ok" => ~is_absolute(probe.id)
  /\ probe.op = "local_push" => probe.id.segs = probe.before.segs \o probe.arg.segs

\* C29: is_in_collection(names) returns true if and only if the StoreId has
\* at least Len(names) components and its first Len(names) components are
\* Normal segments equal to names position by position; so it returns false
\* for a list of names longer than the list of components.
C29_OrderedPrefix ==
  probe.op = "is_in_collection" =>
    LET c == components(probe.id)
    IN  probe.out <=> /\ Len(c) >= Len(probe.colls)
                      /\ \A i \in 1..Len(probe.colls) :
                           c[i].kind = "Normal" /\ c[i].name = probe.colls[i]

\* C30: for every StoreId and every root, with_base(root).into_pathbuf()
\* succeeds and is the root followed by the segments of the id, nothing else
\* changed, and with_base(root).without_base() is the id.
C30_RootJoinedWithId ==
  probe.op = "with_base" =>
    /\ probe.res = "Ok"
    /\ probe.out = [abs |-> probe.base.abs, segs |-> probe.base.segs \o probe.id.segs]
    /\ probe.back = probe.id

\* ---------------------------------------------------------- opening a store

\* What new_with_backend may find at the location it is given: "/" is a
\* directory; the other path has nothing, has nothing below a parent that
\* cannot take a directory, or is a file.
LocationsAtOpen ==
  {[path |-> "/", kind |-> "dir"]}
  \cup {[path |-> "/tmp/store", kind |-> k] : k \in {"absent", "blocked", "file"}}

\* The store configurations: none, one that has the setting false or true, one
\* that lacks it.
Configs == {"None", "deny", "allow", "unset"}

\* configuration::config_implicit_store_create_allowed
config_implicit_store_create_allowed(config) ==
  IF config = "unset" THEN [ok |-> FALSE, val |-> FALSE]
  ELSE [ok |-> TRUE, val |-> (config = "allow")]

\* FileAbstraction::create_dir_all at a location that does not exist.
create_dir_all(location) ==
  IF location.kind = "blocked" THEN [ok |-> FALSE, kind |-> location.kind]
  ELSE [ok |-> TRUE, kind |-> "dir"]

OpenCreatesBeforeAsking(location, config) ==
  LET allowed == config_implicit_store_create_allowed(config)
      made == create_dir_all(location)
  IN  IF location.kind \in {"absent", "blocked"}
      THEN IF ~made.ok THEN [res |-> "StorePathCreate", kind |-> made.kind]
           ELSE IF ~allowed.ok THEN [res |-> "ConfigError", kind |-> made.kind]
           ELSE IF ~allowed.val THEN [res |-> "CreateStoreDirDenied", kind |-> made.kind]
           ELSE [res |-> "Ok", kind |-> made.kind, root |-> location.path, entries |-> {}]
      ELSE IF location.kind = "file" THEN [res |-> "StorePathExists", kind |-> location.kind]
      ELSE [res |-> "Ok", kind |-> location.kind, root |-> location.path, entries |-> {}]

\* Store::new_with_backend: what it returns, what is at the location after the
\* call and, with Ok, the root and the keys of the map of the Store.
new_with_backend(location, config) ==
  IF location.kind \in {"absent", "blocked"}
  THEN LET allowed == config_implicit_store_create_allowed(config)
           made == create_dir_all(location)
       IN  IF ~allowed.ok THEN [res |-> "ConfigError", kind |-> location.kind]
           ELSE IF ~allowed.val THEN [res |-> "CreateStoreDirDenied", kind |-> location.kind]
           ELSE IF ~made.ok THEN [res |-> "StorePathCreate", kind |-> made.kind]
           ELSE [res |-> "Ok", kind |-> made.kind, root |-> location.path, entries |-> {}]
  ELSE IF location.kind = "file" THEN [res |-> "StorePathExists", kind |-> location.kind]
  ELSE [res |-> "Ok", kind |-> location.kind, root |-> location.path, entries |-> {}]

\* Store::new_with_backend called with the location and the configuration the
\* run starts with.
StoreOpen ==
  /\ probe.op = "open"
  /\ probe' = [op |-> "new_with_backend", location |-> probe.location, config |-> probe.config,
               store |-> new_with_backend(probe.location, probe.config)]
  /\ UNCHANGED <<entries, backend, handles, thr, poisoned, last, hist>>

\* No Store yet: a location, a configuration, and one thread that will call
\* the Store once it is there.
InitOpen ==
  /\ StoreNew
  /\ thr = [t \in Threads |-> IF t = 1 THEN Idle ELSE Parked]
  /\ last = Unobserved
  /\ hist = HistNew(FALSE, FALSE)
  /\ probe \in {[op |-> "open", location |-> l, config |-> c] : l \in LocationsAtOpen, c \in Configs}

\* The store is opened; the operations run on the Store that was returned.
NextOpen ==
  \/ StoreOpen
  \/ probe.op = "new_with_backend" /\ probe.store.res = "Ok" /\ Next

SpecOpen == InitOpen /\ [][NextOpen]_vars

\* C31 as stated: new_with_backend returns an error and creates nothing when
\* the location does not exist and the configuration does not allow creating
\* it, returns an error when the location is a file, and otherwise returns a
\* Store with the location as root and an empty map; no operation on that
\* Store has to do with the setting afterwards.
C31_OpeningAStore ==
  /\ [](probe.op = "new_with_backend" =>
          LET l == probe.location
              st == probe.store
              missing == l.kind \in {"absent", "blocked"}
          IN  /\ missing /\ probe.config # "allow" => st.res # "Ok" /\ st.kind = l.kind
              /\ l.kind = "file" => st.res # "Ok"
              /\ ~(missing /\ probe.config # "allow") /\ l.kind # "file"
                   => st.res = "Ok" /\ st.root = l.path /\ st.entries = {})
  /\ [][probe.op = "new_with_backend" => probe' = probe]_vars

\* C31, amended: where the location does not exist and the configuration
\* allows creating it, new_with_backend returns the Store if the backend
\* creates the directory and the backend's error if it does not.
C31_OpeningAStoreThatCanBeMade ==
  /\ [](probe.op = "new_with_backend" =>
          LET l == probe.location
              st == probe.store
              missing == l.kind \in {"absent", "blocked"}
          IN  /\ missing /\ probe.config # "allow" => st.res # "Ok" /\ st.kind = l.kind
              /\ l.kind = "file" => st.res # "Ok" /\ st.kind = l.kind
              /\ l.kind = "blocked" /\ probe.config = "allow" => st.res # "Ok"
              /\ l.kind = "absent" /\ probe.config = "allow"
                   => st.res = "Ok" /\ st.kind = "dir" /\ st.root = l.path /\ st.entries = {}
              /\ l.kind = "dir"
                   => st.res = "Ok" /\ st.kind = "dir" /\ st.root = l.path /\ st.entries = {})
  /\ [][probe.op = "new_with_backend" => probe' = probe]_vars

\* A store was opened at a location that did not exist, the directory was
\* made, and an operation has put a slot into its map since.
C31_Witness ==
  /\ probe.op = "new_with_backend" /\ probe.store.res = "Ok"
  /\ probe.location.kind = "absent" /\ probe.store.kind = "dir"
  /\ cache_size > 0

\* C32: an update(handle) that returns Ok has written the handle's entry to the
\* file at the handle's id and nothing else, the slot is still Borrowed and the
\* handle still outstanding; another update of it would return Ok again, and
\* its release would leave the slot Present.
C32_UpdateKeepsTheBorrow ==
  [][\A t \in Threads, h \in BagToSet(handles) :
       Update(t, h) /\ last' = Result("update", h.location, "Ok") =>
         /\ backend' = [backend EXCEPT ![h.location] = to_str(h)]
         /\ Borrowed(h.location)'
         /\ BagIn(h, handles')
         /\ (_update(h, FALSE).res = "Ok")'
         /\ (_update(h, TRUE).res = "Ok")'
         /\ (_update(h, TRUE).entries[h.location].status = "Present")']_vars

\* C33: whichever way the threads interleave, at the step in which create(id)
\* inserts its Borrowed slot and hands out the default entry, the backend has
\* no file at id.
C33_CreateIsAtomic ==
  [][\A t \in Threads, id \in StoreIds :
       CreateInsert(t) /\ thr[t].id = id /\ entries[id] = NoSlot /\ Borrowed(id)'
         => ~BackendExists(backend, id)]_vars

\* C34: whichever way the threads interleave, at the step in which get(id)
\* inserts a slot for id, or hands out the default entry at id, the id is in
\* the map or in the backend.
C34_GetNeverCreates ==
  [][\A t \in Threads, id \in StoreIds :
       /\ GetRetrieve(t) /\ thr[t].id = id
       /\ \/ entries[id] = NoSlot /\ entries'[id] # NoSlot
          \/ handles' = AddHandle(EntryNew(id))
       => entries[id] # NoSlot \/ BackendExists(backend, id)]_vars

\* C35: a retrieve(id), or the retrieve of a get(id), that returns an error
\* leaves the map with the keys and the statuses it had, and no Borrowed slot
\* without a handle.
C35_FailedRetrieveChangesNothing ==
  [][\A t \in Threads, id \in StoreIds :
       /\ Retrieve(t, id) \/ (GetRetrieve(t) /\ thr[t].id = id)
       /\ last'.op \in {"retrieve", "get"} /\ last'.id = id /\ last'.res # "Ok"
       => /\ \A i \in StoreIds : entries'[i].status = entries[i].status
          /\ Borrowed(id)' => NumHandles(id)' = 1]_vars

\* C36: after a move_by_id(old, new) that returns Ok and found a slot for old
\* in the map, the file instance of the re-keyed slot is the one at the path of
\* new: reading through the slot gives the entry that was stored at old, and a
\* write through it leaves a file at new and none at old.
C36_MovedSlotFollowsTheFile ==
  [][\A t \in Threads, old \in StoreIds, new \in StoreIds :
       /\ move_by_id(t, old, new) /\ last' = Result("move_by_id", old, "Ok")
       /\ entries[old] # NoSlot /\ backend[old].kind = "entry"
       => /\ entries'[new].file = new
          /\ get_entry(backend, entries[new])'
               = [ok |-> TRUE, err |-> "",
                  entry |-> [location |-> new, header |-> backend[old].header,
                             content |-> backend[old].content]]
          /\ ~BackendExists(FileWriteContent(backend, entries[new].file, EntryNew(new)), old)'
          /\ BackendExists(FileWriteContent(backend, entries[new].file, EntryNew(new)), new)']_vars

\* C37: a delete(id) that returns an error leaves the map with the keys and
\* the statuses it had before the call: one that fails under the write lock
\* changes nothing, and one that took the slot of id out of the map does not
\* go on to fail at removing the file.
C37_FailedDeleteKeepsTheMap ==
  [][\A t \in Threads, id \in StoreIds :
       delete(t, id) =>
         /\ thr'[t] = Idle /\ last'.res # "Ok"
              => \A i \in StoreIds : entries'[i].status = entries[i].status
         /\ entries'[id] # entries[id]
              => thr'[t].pc = "delete_remove" /\ BackendExists(backend, id)']_vars

\* One thread calls the store; what get_copy returns is recorded, what the
\* other calls return is not.
InitCopy ==
  /\ StoreNew
  /\ thr = [t \in Threads |-> IF t = 1 THEN Idle ELSE Parked]
  /\ last = Unobserved
  /\ hist = HistNew(FALSE, FALSE)
  /\ probe = NoCopy

SpecCopy == InitCopy /\ [][Next]_vars

\* C38 as stated: get_copy(id) returns IdLocked when the slot of id is
\* Borrowed, and otherwise the entry of the file at id, or the default entry at
\* id when there is no file; whatever it returns, the map and the backend are
\* what they were.
C38_GetCopyIsReadOnly ==
  [][\A t \in Threads, id \in StoreIds :
       get_copy(t, id) =>
         /\ UNCHANGED <<entries, backend, handles>>
         /\ probe'.id = id
         /\ Borrowed(id) => probe'.res = "IdLocked"
         /\ ~Borrowed(id) =>
              /\ probe'.res = "Ok"
              /\ probe'.entry.location = id
              /\ backend[id] = NoFile
                   => probe'.entry = [location |-> id,
                                      header |-> [imag |-> "table", version |-> "valid", other |-> "none"],
                                      content |-> ""]
              /\ backend[id] # NoFile
                   => /\ probe'.entry.header = backend[id].header
                      /\ probe'.entry.content = backend[id].content]_vars

\* C38, amended: as C38, but where the file at id does not parse as an entry
\* get_copy returns the error of the parse, still changing nothing.
C38_GetCopyIsReadOnlyAndMayFail ==
  [][\A t \in Threads, id \in StoreIds :
       get_copy(t, id) =>
         /\ UNCHANGED <<entries, backend, handles>>
         /\ probe'.id = id
         /\ Borrowed(id) => probe'.res = "IdLocked"
         /\ ~Borrowed(id) /\ backend[id] = NoFile
              => /\ probe'.res = "Ok"
                 /\ probe'.entry = [location |-> id,
                                    header |-> [imag |-> "table", version |-> "valid", other |-> "none"],
                                    content |-> ""]
         /\ ~Borrowed(id) /\ backend[id].kind = "entry"
              => /\ probe'.res = "Ok"
                 /\ probe'.entry = [location |-> id, header |-> backend[id].header,
                                    content |-> backend[id].content]
         /\ ~Borrowed(id) /\ backend[id].kind = "malformed"
              => probe'.res \notin {"Ok", "IdLocked"}]_vars

\* get_copy returned the entry of a file that a release had written, for an id
\* whose slot is Present, while a handle for the other id is outstanding.
C38_Witness ==
  /\ probe.op = "get_copy" /\ probe.res = "Ok"
  /\ probe.entry.content = "text"
  /\ Present(probe.id)
  /\ backend[probe.id].kind = "entry" /\ backend[probe.id].content = "text"
  /\ \E i \in StoreIds : i # probe.id /\ Borrowed(i)

\* C39: whichever way the threads interleave, (1) at every write of an entry
\* through a slot (update, release, the release at the end of save_as) the
\* slot's id is the entry's location, and a slot that move_by_id re-keys has no
\* handle outstanding; (2) the slot that move_by_id inserts under new replaces
\* no slot.
C39_AssertionsHold ==
  [][\A t \in Threads :
       /\ \A h \in BagToSet(handles) :
            /\ Update(t, h) \/ Drop(t, h)
            /\ ~poisoned /\ Borrowed(h.location) /\ verify(h.header) = "Ok"
            => entries[h.location].id = h.location /\ ~poisoned'
       /\ \A id \in StoreIds :
            /\ SaveAsDrop(t) /\ thr[t].h.location = id
            /\ ~poisoned /\ Borrowed(id) /\ verify(thr[t].h.header) = "Ok"
            => entries[id].id = id /\ ~poisoned'
       /\ \A old \in StoreIds, new \in StoreIds :
            move_by_id(t, old, new) /\ entries[old] # NoSlot /\ entries'[old] = NoSlot
            => /\ entries[new] = NoSlot
               /\ NumHandles(old) = 0]_vars

\* A slot that move_by_id re-keyed was borrowed afterwards, an entry was
\* written through it, and its handle is still outstanding.
C39_Witness ==
  \E id \in StoreIds :
    /\ Borrowed(id) /\ NumHandles(id) = 1
    /\ entries[id].file # id
    /\ backend[entries[id].file].kind = "entry"

\* ------------------------------------------------- an entry as a reference

\* The 'ref' part of an entry's header: no section, or a table with the flag
\* is_ref (absent, a boolean, or a value of another type) and with or without
\* the data of a reference (relpath, hash, collection).
NoRef == [kind |-> "absent", is_ref |-> "absent", data |-> FALSE]

RefSections ==
  {NoRef} \cup {[kind |-> "table", is_ref |-> f, data |-> d] :
                  f \in {"absent", "true", "false", "string"}, d \in BOOLEAN}

\* What toml_query's delete does with a table that is not empty.
DeleteKinds == {"refuses", "removes"}

\* The file that make_ref is to refer to, as the hasher finds it.
RefFiles == {"missing", "unreadable", "ok"}

\* Is::is::<IsRef>: the boolean at "ref.is_ref", false where there is none.
is(ref) ==
  IF ref.is_ref = "string" THEN [ok |-> FALSE, val |-> FALSE]
  ELSE [ok |-> TRUE, val |-> (ref.is_ref = "true")]

\* Is::set_isflag::<IsRef>: true is inserted at "ref.is_ref", the table made
\* where there is none.
set_isflag(ref) == [kind |-> "table", is_ref |-> "true", data |-> ref.data]

\* make_header_section: a table with relpath, hash and collection.
make_header_section == [kind |-> "table", is_ref |-> "absent", data |-> TRUE]

\* get_header_mut().delete("ref")
delete_ref(ref, lib) ==
  IF ref.kind = "absent" \/ (ref.is_ref = "absent" /\ ~ref.data) THEN [ok |-> TRUE, ref |-> NoRef]
  ELSE IF lib = "refuses" THEN [ok |-> FALSE, ref |-> ref]
  ELSE [ok |-> TRUE, ref |-> NoRef]

\* Ref::make_ref
make_ref(ref, configured, file, force) ==
  IF ~force /\ ~is(ref).ok THEN [res |-> "TypeError", ref |-> ref]
  ELSE IF ~force /\ is(ref).val THEN [res |-> "AlreadyARef", ref |-> ref]
  ELSE IF ~configured THEN [res |-> "ConfigMissing", ref |-> ref]
  ELSE IF file = "missing" THEN [res |-> "FileMissing", ref |-> ref]
  ELSE IF file = "unreadable" THEN [res |-> "HashError", ref |-> ref]
  ELSE [res |-> "Ok", ref |-> set_isflag(make_header_section)]

\* Ref::remove_ref
remove_ref(ref, lib) ==
  LET d == delete_ref(ref, lib)
  IN  IF ~d.ok THEN [res |-> "DeleteError", ref |-> ref]
      ELSE [res |-> "Ok", ref |-> set_isflag(d.ref)]

\* entry.is_ref()
RefIsRef ==
  /\ probe' = [probe EXCEPT !.op = "is_ref", !.args = <<>>,
                            !.res = IF ~is(probe.ref).ok THEN "TypeError"
                                    ELSE IF is(probe.ref).val THEN "true" ELSE "false"]
  /\ UNCHANGED <<entries, backend, handles, thr, poisoned, last, hist>>

\* entry.make_ref(path, collection, config, force)
RefMakeRef(configured, file, force) ==
  /\ LET r == make_ref(probe.ref, configured, file, force)
     IN  probe' = [probe EXCEPT !.op = "make_ref", !.res = r.res, !.ref = r.ref,
                                !.args = <<configured, file, force>>]
  /\ UNCHANGED <<entries, backend, handles, thr, poisoned, last, hist>>

\* entry.remove_ref()
RefRemoveRef ==
  /\ LET r == remove_ref(probe.ref, probe.lib)
     IN  probe' = [probe EXCEPT !.op = "remove_ref", !.res = r.res, !.ref = r.ref,
                                !.args = <<>>]
  /\ UNCHANGED <<entries, backend, handles, thr, poisoned, last, hist>>

\* No store operation runs: an entry with any 'ref' part in its header is
\* asked whether it is a reference, made one, and unmade.
InitRef ==
  /\ StoreNew
  /\ backend = [i \in StoreIds |-> NoFile]
  /\ thr = [t \in Threads |-> Parked]
  /\ last = Unobserved
  /\ hist = HistNew(FALSE, FALSE)
  /\ probe \in {[op |-> "entry", res |-> "Ok", args |-> <<>>, ref |-> r, lib |-> l] :
                  r \in RefSections, l \in DeleteKinds}

NextRef ==
  \/ RefIsRef
  \/ \E configured \in BOOLEAN, file \in RefFiles, force \in BOOLEAN :
       RefMakeRef(configured, file, force)
  \/ RefRemoveRef

SpecRef == InitRef /\ [][NextRef]_vars

\* C40: an entry without a 'ref' section is no reference; after a make_ref
\* without force that returns Ok the entry is a reference and another make_ref
\* without force fails; after a remove_ref that follows and returns Ok the
\* entry is no reference and its header has no 'ref' section.
C40_RefRoundTrip ==
  [][/\ probe'.op = "is_ref" /\ probe.ref = NoRef => probe'.res = "false"
     /\ probe'.op = "make_ref" /\ probe'.res = "Ok"
          => /\ is(probe'.ref) = [ok |-> TRUE, val |-> TRUE]
             /\ \A configured \in BOOLEAN, file \in RefFiles :
                  make_ref(probe'.ref, configured, file, FALSE).res # "Ok"
     /\ probe.op = "make_ref" /\ probe.res = "Ok"
        /\ probe'.op = "remove_ref" /\ probe'.res = "Ok"
          => /\ is(probe'.ref) = [ok |-> TRUE, val |-> FALSE]
             /\ probe'.ref.kind = "absent"]_vars

SpecSeq == InitSeq /\ [][Next]_vars

SpecCreated == InitCreated /\ [][Next]_vars

SpecReleased == InitReleased /\ [][Next]_vars

====
